---- MODULE Spec2Model ----
(***************************************************************************)
(* State-machine model of LCOE_Calculator (dtocean_maintenance/main.py):   *)
(* executeCalc, the initial coordination of the event tables, the          *)
(* pre-flight check, the scheduler loop with its three track steps         *)
(* (Calendar = CaBaMa, Corrective = UnCoMa, Condition = CoBaMa), the cost  *)
(* engine and the post calculation.                                        *)
(*                                                                         *)
(* Dates are whole seconds since startOperationDate.  Durations that the   *)
(* code keeps in (fractional) hours are kept in seconds, so that the       *)
(* code's floor divisions (secs // 3600) and its truncation of timestamps  *)
(* to the minute are computed, not assumed; the durations of the ledgers   *)
(* of arrayDict are in minutes.  Money is in cents.  Python indices are    *)
(* 0-based; Row(t, i) reads label i of table t.                            *)
(***************************************************************************)
EXTENDS Integers, Sequences, FiniteSets, TLC

(* ---------------------------------------------------------------------- *)
(* Constants of __init__                                                   *)
(* ---------------------------------------------------------------------- *)
Minute == 60
Hour == 3600
dayHours == 24
yearSeconds == (1461 * dayHours * Hour) \div 4
delayEventsAfterCaBaMaHour == 6 * 30 * 24
startDayWorkingHour == 6
NoPrepTime == 0 * Hour
PrepTimeCalcUnCoMa == 48
PrepTimeCalcCaBaMa == 0
PrepTimeCalcCoBaMa == 0
CaBaMa_nrOfMaxActions == 10
failureRateFactorCoBaMa == 0
None == -1

(* ---------------------------------------------------------------------- *)
(* Bounds of the explored inputs                                           *)
(* ---------------------------------------------------------------------- *)
MaxDevices == 1
MaxDraws == 2
missionTime == 1

startOperationDate == 0
operationTimeSeconds == missionTime * yearSeconds
endOperationDate == startOperationDate + operationTimeSeconds

(* ---------------------------------------------------------------------- *)
(* Names.  The code tests names with substring and slice expressions;      *)
(* these operators compute the same tests on the names of the model.       *)
(* ---------------------------------------------------------------------- *)
DeviceNames ==
    <<"device001", "device002", "device003", "device004", "device005",
      "device006", "device007", "device008", "device009", "device010",
      "device011">>
PtoNames ==
    <<"Pto001", "Pto002", "Pto003", "Pto004", "Pto005", "Pto006", "Pto007",
      "Pto008", "Pto009", "Pto010", "Pto011">>

\* 'device' in name
HasDevice(name) == \E k \in DOMAIN DeviceNames : DeviceNames[k] = name

\* 'subhub' in name
HasSubhub(name) == FALSE

\* 'Insp' in FM_ID
HasInsp(fm) == fm \in {"Insp1"}

\* name[0:-3]
StripIndex(name) ==
    CASE name = "Substation001" -> "Substation"
      [] HasDevice(name) -> "device"
      [] name \in {PtoNames[k] : k \in DOMAIN PtoNames} -> "Pto"
      [] OTHER -> name

\* ComponentID + '_' + str(indexFM)
CompIDWithIndex(cid, ifm) == <<cid, ifm>>

(* ---------------------------------------------------------------------- *)
(* Input data base: Component, Failure_Mode, Repair_Action, Inspection,    *)
(* Farm_OM wages.  One array-level component with a repair action and one  *)
(* Pto per device with an inspection.                                      *)
(* ---------------------------------------------------------------------- *)
ArrayRowNoPoisson ==
    [belongsTo |-> "Array", ComponentType |-> "Substation001",
     ComponentSubType |-> "Substation", ComponentID |-> "Substation001",
     FM_ID |-> "MoS1", indexFM |-> 1, RA_ID |-> "MoS1", failureRate |-> 2]

DeviceRowNoPoisson(k) ==
    [belongsTo |-> DeviceNames[k], ComponentType |-> DeviceNames[k],
     ComponentSubType |-> "Pto", ComponentID |-> PtoNames[k],
     FM_ID |-> "Insp1", indexFM |-> 1, RA_ID |-> "Insp1", failureRate |-> 1]

\* delays in hours
Repair_Action(cidx) ==
    [delay_spare |-> 2, delay_crew |-> 1, delay_organisation |-> 0,
     number_technicians |-> 2, number_specialists |-> 1]

Inspection(cidx) ==
    [delay_crew |-> 0, delay_organisation |-> 0,
     number_technicians |-> 1, number_specialists |-> 0]

\* costs in cents, mass in kg, lengths in mm
Failure_Mode(cidx) ==
    IF cidx[1] = "Substation001"
    THEN [cost_spare |-> 5000, cost_spare_transit |-> 300,
          cost_spare_loading |-> 200, spare_mass |-> 120,
          spare_length |-> 2000, spare_width |-> 1500, spare_height |-> 900]
    ELSE [cost_spare |-> 1000, cost_spare_transit |-> 100,
          cost_spare_loading |-> 50, spare_mass |-> 40,
          spare_length |-> 800, spare_width |-> 600, spare_height |-> 300]

\* om_log['requirement'][5] of feas_om: deck area, cargo and loading
feas_om(cidx) ==
    IF cidx[1] = "Substation001"
    THEN [deck_area |-> 30, deck_cargo |-> 12, deck_loading |-> 4]
    ELSE [deck_area |-> 8, deck_cargo |-> 3, deck_loading |-> 1]

\* the calendar policy of the array-level component in the table Component
\* that the constructor receives
VARIABLE calendarPolicy

\* the calendar policy of Substation001 in the runs of executeCalc
SubstationCalendar ==
    [start_date_calendar_based_maintenance |-> 30 * dayHours * Hour,
     end_date_calendar_based_maintenance |-> 31 * dayHours * Hour,
     interval_calendar_based_maintenance |-> 2]

\* policy fields of Component: dates in seconds, interval in half years
\* (the Pto is maintained twice in the mission time); soh_threshold in
\* percent.  The dates of the condition policy are well-formed for every
\* component; a component of the set malformed of __initCalc has calendar
\* dates that are not datetimes
Component(cid) ==
    IF cid = "Substation001"
    THEN [start_date_calendar_based_maintenance |->
              calendarPolicy.start_date_calendar_based_maintenance,
          end_date_calendar_based_maintenance |->
              calendarPolicy.end_date_calendar_based_maintenance,
          interval_calendar_based_maintenance |->
              calendarPolicy.interval_calendar_based_maintenance,
          start_date_condition_based_maintenance |-> 40 * dayHours * Hour,
          end_date_condition_based_maintenance |-> 41 * dayHours * Hour,
          soh_threshold |-> 50]
    ELSE [start_date_calendar_based_maintenance |-> 20 * dayHours * Hour,
          end_date_calendar_based_maintenance |-> 21 * dayHours * Hour,
          interval_calendar_based_maintenance |-> 1,
          start_date_condition_based_maintenance |-> 40 * dayHours * Hour,
          end_date_condition_based_maintenance |-> 41 * dayHours * Hour,
          soh_threshold |-> 80]

(* ---------------------------------------------------------------------- *)
(* Small helpers                                                           *)
(* ---------------------------------------------------------------------- *)
Max(a, b) == IF a >= b THEN a ELSE b

Row(t, i) == t[i + 1]

\* t.ix[i] = r : overwrite label i, or enlarge the table when i = len(t)
SetRow(t, i, r) == IF i < Len(t) THEN [t EXCEPT ![i + 1] = r] ELSE Append(t, r)

\* datetime(year, month, day, hour, minute) / replace(second=0)
TruncMinute(t) == (t \div Minute) * Minute

\* DataFrame.sort on one column followed by reset_index: the orders in which
\* the rows are sorted by the key (rows with equal keys in any order)
SortedOrders(t, column) ==
    {p \in Permutations(DOMAIN t) :
        \A i \in 1..(Len(t) - 1) : t[p[i]][column] <= t[p[i + 1]][column]}

Reorder(t, p) == [i \in DOMAIN t |-> t[p[i]]]

\* lexicographic (ASCII) order of the strings that the code sorts by
StrOrder == <<"Array", "Insp1", "MoS1", "Pto", "Substation", "device", "nan">>

StrRank(s) == CHOOSE i \in DOMAIN StrOrder : StrOrder[i] = s

\* tuples of integers, compared column by column
RECURSIVE LexLess(_, _)
LexLess(a, b) ==
    IF a = <<>> THEN FALSE
    ELSE IF Head(a) /= Head(b) THEN Head(a) < Head(b)
         ELSE LexLess(Tail(a), Tail(b))

\* DataFrame.sort on several columns (a stable sort): pairs <<key, row>>
RECURSIVE InsertStable(_, _)
InsertStable(sorted, x) ==
    IF sorted = <<>> THEN <<x>>
    ELSE IF LexLess(x[1], Head(sorted)[1]) THEN <<x>> \o sorted
         ELSE <<Head(sorted)>> \o InsertStable(Tail(sorted), x)

RECURSIVE StableSort(_)
StableSort(pairs) ==
    IF pairs = <<>> THEN <<>>
    ELSE InsertStable(StableSort(SubSeq(pairs, 1, Len(pairs) - 1)),
                      pairs[Len(pairs)])

RECURSIVE Flatten(_)
Flatten(ss) == IF ss = <<>> THEN <<>> ELSE Head(ss) \o Flatten(Tail(ss))

RECURSIVE SumSeq(_)
SumSeq(s) == IF s = <<>> THEN 0 ELSE Head(s) + SumSeq(Tail(s))

(* ---------------------------------------------------------------------- *)
(* Array.executeFEM and poissonProcess (array.py, static.py): the tables   *)
(* and the array dictionary that __initCalc receives.                      *)
(* ---------------------------------------------------------------------- *)
NoPoissonTable(n) == <<ArrayRowNoPoisson>> \o [k \in 1..n |-> DeviceRowNoPoisson(k)]

\* arrival dates of the failure process of NoPoisson row i, in seconds
FailureArrivals(i) ==
    CASE i = 1 -> <<10 * Hour + 40, endOperationDate - Hour,
                    endOperationDate>>
      [] i = 2 -> <<12 * Hour, 50 * Hour + 20, 500 * Hour>>
      [] OTHER -> <<11 * Hour + 15, 70 * Hour, 450 * Hour>>

\* arrival dates drawn for the wear-out process of NoPoisson row i
WearOutArrivals(i) ==
    CASE i = 1 -> <<100 * Hour, 300 * Hour + 30, 900 * Hour>>
      [] i = 2 -> <<80 * Hour + 10, 250 * Hour, 800 * Hour>>
      [] OTHER -> <<90 * Hour, 260 * Hour, 850 * Hour>>

\* poissonProcess(start, horizon, rate): a finite non-decreasing sequence of
\* arrival dates; draw k of NoPoisson row i
poissonProcess(i, k) == SubSeq(WearOutArrivals(i), 1, k)

UnCoMaRow(np, date) ==
    [failureRate |-> np.failureRate, repairActionEvents |-> date,
     failureEvents |-> date, belongsTo |-> np.belongsTo,
     ComponentType |-> np.ComponentType,
     ComponentSubType |-> np.ComponentSubType,
     ComponentID |-> np.ComponentID, FM_ID |-> np.FM_ID,
     indexFM |-> np.indexFM, RA_ID |-> np.RA_ID]

\* the Corrective event table of executeFEM: draws[i] failures of row i
executeFEM_UnCoMa(noPoisson, draws) ==
    Flatten([i \in DOMAIN noPoisson |->
                [j \in 1..draws[i] |->
                    UnCoMaRow(noPoisson[i], FailureArrivals(i)[j])]])

EmptyLedgers ==
    [UnCoMaCostLogistic |-> <<>>, UnCoMaCostOM |-> <<>>,
     UnCoMaOpEvents |-> <<>>, UnCoMaOpEventsDuration |-> <<>>,
     UnCoMaOpEventsIndexFM |-> <<>>, UnCoMaOpEventsCausedBy |-> <<>>,
     CaBaMaCostLogistic |-> <<>>, CaBaMaCostOM |-> <<>>,
     CaBaMaOpEvents |-> <<>>, CaBaMaOpEventsDuration |-> <<>>,
     CaBaMaOpEventsIndexFM |-> <<>>, CaBaMaOpEventsCausedBy |-> <<>>,
     CoBaMaCostLogistic |-> <<>>, CoBaMaCostOM |-> <<>>,
     CoBaMaOpEvents |-> <<>>, CoBaMaOpEventsDuration |-> <<>>,
     CoBaMaOpEventsIndexFM |-> <<>>, CoBaMaOpEventsCausedBy |-> <<>>,
     CoBaMaDeratingCostLogistic |-> <<>>, CoBaMaDeratingCostOM |-> <<>>,
     CoBaMaDeratingOpEventsDuration |-> <<>>]

\* the devices hit by a failure of the component
BreakdownOf(key) ==
    IF key = "Substation001" THEN {"All"}
    ELSE {DeviceNames[k] : k \in {j \in DOMAIN PtoNames : PtoNames[j] = key}}

\* annual energy production of one device [Wh]
AnnualEnergyWP2 == 8766 * 4

\* arrayDict of executeFEM: one entry per device and per component, ledgers
\* empty and weather-window flags unset
executeFEM_arrayDict(n) ==
    [key \in {DeviceNames[k] : k \in 1..n} \cup {PtoNames[k] : k \in 1..n}
             \cup {"Substation001"} |->
        [Breakdown |-> BreakdownOf(key),
         UnCoMaNoWeatherWindow |-> FALSE,
         CoBaMaNoWeatherWindow |-> FALSE,
         CoBaMa_FR_List |-> <<0>>,
         CoBaMa_initOpEventsList |-> << <<>> >>,
         ledger |-> EmptyLedgers]]

(* ---------------------------------------------------------------------- *)
(* Event tables of __init__: DataFrame(index=[0]) holds one row of NaN     *)
(* ---------------------------------------------------------------------- *)
NaNRowCaBaMa ==
    [startActionDate |-> None, endActionDate |-> None,
     currentStartActionDate |-> None, currentEndActionDate |-> None,
     belongsTo |-> "nan", belongsToSort |-> "nan", ComponentType |-> "nan",
     ComponentSubType |-> "nan", ComponentID |-> "nan", FM_ID |-> "nan",
     indexFM |-> None, RA_ID |-> "nan", logisticCost |-> None, omCost |-> None]

NaNRowCoBaMa ==
    [startActionDate |-> None, endActionDate |-> None,
     currentStartDate |-> None, currentEndDate |-> None,
     currentAlarmDate |-> None, belongsTo |-> "nan", ComponentType |-> "nan",
     ComponentSubType |-> "nan", ComponentID |-> "nan", FM_ID |-> "nan",
     indexFM |-> None, RA_ID |-> "nan", threshold |-> None,
     failureRate |-> None, flagCaBaMa |-> FALSE]

IsNaN(row) == row.ComponentID = "nan"

(* ---------------------------------------------------------------------- *)
(* __initCalc: calendar builder, condition builder, coordination           *)
(* ---------------------------------------------------------------------- *)
\* type(startActionDate) == datetime and type(endActionDate) == datetime
\* and not isnan(interval)
CalendarFieldsOK(cid, malformed) == cid \notin malformed

CaBaMaRow(np, start, end) ==
    [startActionDate |-> start, endActionDate |-> end,
     currentStartActionDate |-> start, currentEndActionDate |-> end,
     belongsTo |-> np.belongsTo,
     belongsToSort |-> IF HasDevice(np.belongsTo) THEN "device"
                       ELSE np.belongsTo,
     ComponentType |-> np.ComponentType,
     ComponentSubType |-> np.ComponentSubType,
     ComponentID |-> np.ComponentID, FM_ID |-> np.FM_ID,
     indexFM |-> np.indexFM, RA_ID |-> np.RA_ID,
     logisticCost |-> 0, omCost |-> 0]

\* while startActionDateDummy < endOperationDate: one row per interval
RECURSIVE CalendarWindows(_, _, _, _)
CalendarWindows(np, startDummy, endDummy, step) ==
    IF startDummy < endOperationDate
    THEN <<CaBaMaRow(np, startDummy, endDummy)>>
         \o CalendarWindows(np, startDummy + step, endDummy + step, step)
    ELSE <<>>

\* the Calendar rows of one NoPoisson row
CalendarRowsOf(np, malformed) ==
    LET c == Component(np.ComponentID)
        start == c.start_date_calendar_based_maintenance
    IN  IF CalendarFieldsOK(np.ComponentID, malformed)
           /\ startOperationDate <= start /\ start <= endOperationDate
        THEN CalendarWindows(np, start, c.end_date_calendar_based_maintenance,
                 (c.interval_calendar_based_maintenance * yearSeconds) \div 2)
        ELSE <<>>

SortByColumns(t, keys) ==
    LET s == StableSort([j \in DOMAIN t |-> <<keys[j], t[j]>>])
    IN  [i \in DOMAIN t |-> s[i][2]]

CaBaMaSortKey1(r) ==
    <<r.startActionDate, StrRank(r.ComponentSubType), StrRank(r.FM_ID)>>

CaBaMaSortKey2(r) == <<r.startActionDate, StrRank(r.belongsToSort)>>

\* the Calendar table after the loop over eventsTableNoPoisson and the sort
BuildCaBaMaTable(noPoisson, malformed) ==
    CHOOSE built \in {(
        IF Len(rows) /= 0
        THEN CHOOSE sorted \in {
                 SortByColumns(first,
                     [j \in DOMAIN first |-> CaBaMaSortKey2(first[j])]) :
                 first \in {SortByColumns(rows,
                     [j \in DOMAIN rows |-> CaBaMaSortKey1(rows[j])])}} : TRUE
        ELSE <<NaNRowCaBaMa>>
        ) : rows \in {Flatten([i \in DOMAIN noPoisson |->
                            CalendarRowsOf(noPoisson[i], malformed)])}} : TRUE

\* start + (dur_secs / 3600) * (1 - threshold) hours, threshold in percent
AlarmDate(start, end, threshold) ==
    LET dur == end - start
    IN  start + (dur \div 100) * (100 - threshold)
              + ((dur % 100) * (100 - threshold)) \div 100

\* failureRate - failureRate * (failureRateFactorCoBaMa / 100.0)
FailureRateCoBaMa(rate) == (rate * (100 - failureRateFactorCoBaMa)) \div 100

ConditionFieldsOK(cid, malformed) ==
    LET threshold == Component(cid).soh_threshold
    IN  cid \notin malformed /\ ~(threshold < 0) /\ ~(100 < threshold)

\* the Condition rows (none or one) of one NoPoisson row whose wear-out
\* process drew poissonValue
ConditionRowsOf(np, poissonValue, malformed, calendarEnabled) ==
    IF ConditionFieldsOK(np.ComponentID, malformed) /\ 0 < Len(poissonValue)
    THEN LET c == Component(np.ComponentID)
         IN << [startActionDate |-> c.start_date_calendar_based_maintenance,
                endActionDate |-> c.end_date_calendar_based_maintenance,
                currentStartDate |-> startOperationDate,
                currentEndDate |-> poissonValue[1],
                currentAlarmDate |-> AlarmDate(startOperationDate,
                                               poissonValue[1],
                                               c.soh_threshold),
                belongsTo |-> np.belongsTo,
                ComponentType |-> np.ComponentType,
                ComponentSubType |-> np.ComponentSubType,
                ComponentID |-> np.ComponentID, FM_ID |-> np.FM_ID,
                indexFM |-> np.indexFM, RA_ID |-> np.RA_ID,
                threshold |-> c.soh_threshold,
                failureRate |-> FailureRateCoBaMa(np.failureRate),
                flagCaBaMa |-> calendarEnabled
                               /\ CalendarFieldsOK(np.ComponentID, malformed)] >>
    ELSE <<>>

\* tempdf.loc[...] of the coordination: Corrective row u matches Condition row c
SameEntry(u, c) ==
    /\ u.belongsTo = c.belongsTo
    /\ u.ComponentType = c.ComponentType
    /\ u.ComponentSubType = c.ComponentSubType
    /\ u.ComponentID = c.ComponentID
    /\ u.indexFM = c.indexFM
    /\ u.FM_ID = c.FM_ID
    /\ u.RA_ID = c.RA_ID

RemoveNothing(uncoma, cobama) == uncoma

\* drop every Corrective row that matches a Condition row, reset_index
RemoveSameEntries(uncoma, cobama) ==
    SelectSeq(uncoma,
              LAMBDA u : ~(\E i \in DOMAIN cobama : SameEntry(u, cobama[i])))

\* max(delay_spare, delay_crew + delay_organisation), inspections without spare
ShiftHours(FM_ID, cidx) ==
    IF ~HasInsp(FM_ID)
    THEN Max(Repair_Action(cidx).delay_spare,
             Repair_Action(cidx).delay_crew
                 + Repair_Action(cidx).delay_organisation)
    ELSE Max(0, Inspection(cidx).delay_crew
                    + Inspection(cidx).delay_organisation)

\* the shift applied backwards: the request before the failure
ShiftBackwards(t) ==
    [i \in DOMAIN t |->
        [t[i] EXCEPT !.repairActionEvents =
            t[i].failureEvents
            - ShiftHours(t[i].FM_ID,
                         CompIDWithIndex(t[i].ComponentID, t[i].indexFM)) * Hour]]

\* repairActionEvents = failureEvents + shiftHours, for every row
ShiftRepairActionEvents(t) ==
    [i \in DOMAIN t |->
        [t[i] EXCEPT !.repairActionEvents =
            t[i].failureEvents
            + ShiftHours(t[i].FM_ID,
                         CompIDWithIndex(t[i].ComponentID, t[i].indexFM)) * Hour]]

RepairActionKey == "repairActionEvents"

AlarmKey == "currentAlarmDate"

\* arrayDict after the condition builder stored rate and wear-out draws
StoreWearOut(dict, noPoisson, drawsC, malformed) ==
    [key \in DOMAIN dict |->
        IF \E i \in DOMAIN noPoisson :
              /\ noPoisson[i].ComponentID = key
              /\ ConditionFieldsOK(key, malformed)
        THEN LET i == CHOOSE j \in DOMAIN noPoisson :
                          noPoisson[j].ComponentID = key
             IN  [dict[key] EXCEPT
                    !.CoBaMa_FR_List =
                        <<FailureRateCoBaMa(noPoisson[i].failureRate)>>,
                    !.CoBaMa_initOpEventsList =
                        <<poissonProcess(i, drawsC[i])>>]
        ELSE dict[key]]

(* ---------------------------------------------------------------------- *)
(* State                                                                   *)
(* ---------------------------------------------------------------------- *)
VARIABLES
    Farm_OM, checkNoSolution, integrateSelectPort, ignoreWeatherWindow,
    NrOfDevices,
    pc, exception, phases,
    arrayDict, eventsTableNoPoisson,
    UnCoMa_eventsTable, UnCoMa_index, CaBaMa_eventsTable, CoBaMa_eventsTable,
    actIdxOfUnCoMa, actIdxOfCaBaMa, actIdxOfCoBaMa,
    flagCalcUnCoMa, flagCalcCaBaMa, flagCalcCoBaMa,
    loopValuesForOutput_UnCoMa, loopValuesForOutput_CaBaMa,
    loopValuesForOutput_CoBaMa,
    totalActionDelayHour, totalSeaTimeHour,
    departOpDate, endOpDate, repairActionDate,
    NrOfTurnOutDevices,
    UnCoMa_outputEventsTable, CaBaMa_outputEventsTable,
    CoBaMa_outputEventsTable,
    errorFlag, errorTable, indexNoSolutionsFound, outputsOfWP6,
    om_logistic, logisticRequests, Logistic_Param,
    numberOfSimulations, simulations, statistics

config == <<Farm_OM, checkNoSolution, integrateSelectPort,
            ignoreWeatherWindow, NrOfDevices, calendarPolicy>>

tables == <<eventsTableNoPoisson, UnCoMa_eventsTable, UnCoMa_index,
            CaBaMa_eventsTable, CoBaMa_eventsTable>>

schedulerVars == <<actIdxOfUnCoMa, actIdxOfCaBaMa, actIdxOfCoBaMa,
                   flagCalcUnCoMa, flagCalcCaBaMa, flagCalcCoBaMa,
                   loopValuesForOutput_UnCoMa, loopValuesForOutput_CaBaMa,
                   loopValuesForOutput_CoBaMa, totalActionDelayHour>>

opVars == <<totalSeaTimeHour, departOpDate, endOpDate, repairActionDate>>

logVars == <<UnCoMa_outputEventsTable, CaBaMa_outputEventsTable,
             CoBaMa_outputEventsTable>>

errorVars == <<errorFlag, errorTable, indexNoSolutionsFound>>

logisticVars == <<om_logistic, logisticRequests, Logistic_Param>>

\* the statistics driver: the configured number of runs, the results the
\* calculator returned so far, and the record handed to the caller
statVars == <<numberOfSimulations, simulations, statistics>>

vars == <<config, pc, exception, phases, arrayDict, tables, schedulerVars,
          opVars, NrOfTurnOutDevices, logVars, errorVars, outputsOfWP6,
          logisticVars, statVars>>

\* the tables of Logistic_Param that __calcLogistic hands to the collaborator
LogisticTables ==
    {"vessels", "equipments", "ports", "schedule_OLC", "other_rates",
     "port_sf", "vessel_sf", "eq_sf"}

\* the tables that om_logistics_main receives as copy.deepcopy(...); the
\* others are handed over as the calculator's own objects
DeepCopied ==
    {"vessels", "equipments", "ports", "port_sf", "vessel_sf", "eq_sf"}

\* Logistic_Param after one call of __calcLogistic: the collaborator either
\* leaves its arguments alone or writes into every one of them, and what it
\* writes into a deep copy is lost with the copy
calcLogistic(param) ==
    {param,
     [t \in LogisticTables |->
         IF t \in DeepCopied THEN param[t] ELSE "written"]}

\* om_logistic['optimal'] of a request without solution
NoOptimal ==
    [depart_dt |-> None, end_dt |-> None, schedule_sea_time |-> None,
     total_cost |-> None]

NaNRowError ==
    [error |-> "nan", ComponentID |-> "nan", ComponentType |-> "nan",
     ComponentSubType |-> "nan", FM_ID |-> "nan", RA_ID |-> "nan",
     deck_area |-> None, deck_cargo |-> None, deck_loading |-> None,
     sp_dry_mass |-> None, sp_length |-> None, sp_width |-> None,
     sp_height |-> None]

NaNRowOutput == [nan |-> TRUE]

\* the state after __init__
Init ==
    /\ Farm_OM \in [calendar_based_maintenance : BOOLEAN,
                    corrective_maintenance : BOOLEAN,
                    condition_based_maintenance : BOOLEAN]
    /\ checkNoSolution \in BOOLEAN
    /\ integrateSelectPort \in BOOLEAN
    /\ ignoreWeatherWindow \in BOOLEAN
    /\ NrOfDevices \in 0..MaxDevices
    /\ pc = "executeCalc"
    /\ exception = "none"
    /\ phases = {}
    /\ arrayDict = <<>>
    /\ eventsTableNoPoisson = <<>>
    /\ UnCoMa_eventsTable = <<>>
    /\ UnCoMa_index = <<>>
    /\ CaBaMa_eventsTable = <<NaNRowCaBaMa>>
    /\ CoBaMa_eventsTable = <<NaNRowCoBaMa>>
    /\ actIdxOfUnCoMa = 0
    /\ actIdxOfCaBaMa = 0
    /\ actIdxOfCoBaMa = 0
    /\ flagCalcUnCoMa = FALSE
    /\ flagCalcCaBaMa = FALSE
    /\ flagCalcCoBaMa = FALSE
    /\ loopValuesForOutput_UnCoMa = 0
    /\ loopValuesForOutput_CaBaMa = 0
    /\ loopValuesForOutput_CoBaMa = 0
    /\ totalActionDelayHour = 0
    /\ totalSeaTimeHour = 0
    /\ departOpDate = None
    /\ endOpDate = None
    /\ repairActionDate = None
    /\ NrOfTurnOutDevices = 0
    /\ UnCoMa_outputEventsTable = <<NaNRowOutput>>
    /\ CaBaMa_outputEventsTable = <<NaNRowOutput>>
    /\ CoBaMa_outputEventsTable = <<NaNRowOutput>>
    /\ errorFlag = FALSE
    /\ errorTable = <<NaNRowError>>
    /\ indexNoSolutionsFound = <<>>
    /\ outputsOfWP6 = [lcoeOfArray |-> 0, annualEnergyOfArray |-> 0,
                       annualOpexOfArray |-> 0, CapexOfArray |-> 0,
                       annualDownTimeOfDevices |-> [k \in 1..NrOfDevices |-> 0],
                       annualEnergyOfDevices |-> [k \in 1..NrOfDevices |-> 0],
                       error |-> <<>>, eventTables |-> <<>>]
    /\ om_logistic = [findSolution |-> "none", optimal |-> NoOptimal]
    /\ logisticRequests = <<>>
    /\ Logistic_Param = [t \in LogisticTables |-> "loaded"]
    /\ calendarPolicy = SubstationCalendar
    /\ numberOfSimulations = 1
    /\ simulations = <<>>
    /\ statistics = <<>>

IdentityOrder(t) == [i \in DOMAIN t |-> i]

\* __initCalc
InitCalc ==
    /\ pc = "executeCalc"
    /\ \E drawsU \in [1..(NrOfDevices + 1) -> 0..MaxDraws],
          drawsC \in [1..(NrOfDevices + 1) -> 0..MaxDraws],
          malformed \in {{}, {"Substation001"}} :
        LET calendar == Farm_OM.calendar_based_maintenance
            corrective == Farm_OM.corrective_maintenance
            condition == Farm_OM.condition_based_maintenance
            noPoisson == NoPoissonTable(NrOfDevices)
            fem == executeFEM_UnCoMa(noPoisson, drawsU)
            dict0 == executeFEM_arrayDict(NrOfDevices)
            coRows == Flatten([i \in DOMAIN noPoisson |->
                        ConditionRowsOf(noPoisson[i],
                                        poissonProcess(i, drawsC[i]),
                                        malformed, calendar)])
            coUnsorted == IF condition /\ coRows /= <<>> THEN coRows
                          ELSE <<NaNRowCoBaMa>>
        IN  /\ ~condition => \A i \in DOMAIN drawsC : drawsC[i] = 0
            /\ ~(calendar \/ condition) => malformed = {}
            /\ eventsTableNoPoisson' = noPoisson
            /\ arrayDict' = IF condition
                            THEN StoreWearOut(dict0, noPoisson, drawsC, malformed)
                            ELSE dict0
            /\ CaBaMa_eventsTable' = IF calendar
                                     THEN BuildCaBaMaTable(noPoisson, malformed)
                                     ELSE CaBaMa_eventsTable
            /\ \E pco \in IF condition THEN SortedOrders(coUnsorted, AlarmKey)
                          ELSE {IdentityOrder(coUnsorted)} :
                LET cobama == Reorder(coUnsorted, pco)
                    deduped == IF condition /\ 0 < Len(cobama)
                               THEN RemoveSameEntries(fem, cobama)
                               ELSE fem
                    shifted == ShiftRepairActionEvents(deduped)
                IN  /\ CoBaMa_eventsTable' = cobama
                    /\ IF corrective /\ 0 < Len(fem)
                       THEN \E pun \in SortedOrders(shifted, RepairActionKey) :
                                UnCoMa_eventsTable' = Reorder(shifted, pun)
                       ELSE UnCoMa_eventsTable' = fem
                    /\ UnCoMa_index' = IdentityOrder(UnCoMa_eventsTable')
    /\ pc' = "initialised"
    /\ phases' = phases \cup {"initCalc"}
    /\ UNCHANGED statVars
    /\ UNCHANGED <<config, exception, schedulerVars, opVars,
                   NrOfTurnOutDevices, logVars, errorVars, outputsOfWP6,
                   logisticVars>>

\* one entry of indexNoSolutionsFound for row iCnt of eventsTableNoPoisson
NoSolutionEntry(noPoisson, iCnt) ==
    LET cidx == CompIDWithIndex(Row(noPoisson, iCnt).ComponentID,
                                Row(noPoisson, iCnt).indexFM)
    IN  [index |-> iCnt, ves_req |-> feas_om(cidx),
         sp_dry_mass |-> Failure_Mode(cidx).spare_mass,
         sp_length |-> Failure_Mode(cidx).spare_length,
         sp_width |-> Failure_Mode(cidx).spare_width,
         sp_height |-> Failure_Mode(cidx).spare_height]

ErrorRowByPosition(noPoisson, found, iCnt) ==
    LET e == Row(found, iCnt)
        np == Row(noPoisson, iCnt)
    IN  [error |-> "NoSolutionsFound", ComponentID |-> np.ComponentID,
         ComponentType |-> np.ComponentType,
         ComponentSubType |-> np.ComponentSubType,
         FM_ID |-> np.FM_ID, RA_ID |-> np.RA_ID,
         deck_area |-> e.ves_req.deck_area,
         deck_cargo |-> e.ves_req.deck_cargo,
         deck_loading |-> e.ves_req.deck_loading,
         sp_dry_mass |-> e.sp_dry_mass, sp_length |-> e.sp_length,
         sp_width |-> e.sp_width, sp_height |-> e.sp_height]

\* the values written to errorTable.ix[iCnt]
ErrorRow(noPoisson, found, iCnt) ==
    LET e == Row(found, iCnt)
        np == Row(noPoisson, e.index)
    IN  [error |-> "NoSolutionsFound", ComponentID |-> np.ComponentID,
         ComponentType |-> np.ComponentType,
         ComponentSubType |-> np.ComponentSubType,
         FM_ID |-> np.FM_ID, RA_ID |-> np.RA_ID,
         deck_area |-> e.ves_req.deck_area,
         deck_cargo |-> e.ves_req.deck_cargo,
         deck_loading |-> e.ves_req.deck_loading,
         sp_dry_mass |-> e.sp_dry_mass, sp_length |-> e.sp_length,
         sp_width |-> e.sp_width, sp_height |-> e.sp_height]

NoErrorRow ==
    [error |-> "NoError", ComponentID |-> "", ComponentType |-> "",
     ComponentSubType |-> "", FM_ID |-> "", RA_ID |-> "",
     deck_area |-> None, deck_cargo |-> None, deck_loading |-> None,
     sp_dry_mass |-> None, sp_length |-> None, sp_width |-> None,
     sp_height |-> None]

\* rows of eventsTableNoPoisson in table order, restricted to the set rows
RECURSIVE NoSolutionsOf(_, _, _)
NoSolutionsOf(noPoisson, rows, iCnt) ==
    IF iCnt >= Len(noPoisson) THEN <<>>
    ELSE (IF iCnt \in rows THEN <<NoSolutionEntry(noPoisson, iCnt)>>
          ELSE <<>>) \o NoSolutionsOf(noPoisson, rows, iCnt + 1)

\* executeCalc with a pre-flight flag set: __initCheck, then return
InitCheck ==
    /\ pc = "initialised"
    /\ integrateSelectPort \/ checkNoSolution
    /\ \E noSolutions \in SUBSET (0..(Len(eventsTableNoPoisson) - 1)) :
        LET found == NoSolutionsOf(eventsTableNoPoisson, noSolutions, 0)
        IN  /\ ~checkNoSolution => noSolutions = {}
            /\ indexNoSolutionsFound' = found
            /\ IF found /= <<>>
               THEN /\ errorFlag' = TRUE
                    /\ errorTable' =
                          [k \in 1..Len(found) |->
                              ErrorRow(eventsTableNoPoisson, found, k - 1)]
               ELSE /\ errorFlag' = FALSE
                    /\ errorTable' = SetRow(errorTable, 0, NoErrorRow)
    /\ outputsOfWP6' = [outputsOfWP6 EXCEPT !.error = errorTable']
    /\ pc' = "returned"
    /\ phases' = phases \cup {"initCheck"}
    /\ UNCHANGED statVars
    /\ UNCHANGED <<config, exception, arrayDict, tables, schedulerVars,
                   opVars, NrOfTurnOutDevices, logVars, logisticVars>>

(* ---------------------------------------------------------------------- *)
(* Dates                                                                   *)
(* ---------------------------------------------------------------------- *)
daySeconds == 24 * Hour

yearHours == (1461 * dayHours) \div 4

\* startOperationDate is 1 January 2000, 00:00:00
MonthLengths(leap) ==
    <<31, IF leap THEN 29 ELSE 28, 31, 30, 31, 30, 31, 31, 30, 31, 30, 31>>

RECURSIVE MonthFromDay(_, _, _)
MonthFromDay(dayOfYear, lengths, month) ==
    IF month >= 12 \/ dayOfYear < lengths[month] THEN month
    ELSE MonthFromDay(dayOfYear - lengths[month], lengths, month + 1)

\* datetime.month of a date
MonthOf(t) ==
    LET days == t \div daySeconds
    IN  IF days < 366 THEN MonthFromDay(days, MonthLengths(TRUE), 1)
        ELSE MonthFromDay((days - 366) % 365, MonthLengths(FALSE), 1)

\* datetime(year, month, day) of a date
Midnight(t) == (t \div daySeconds) * daySeconds

RoundHalfAway(num, den) ==
    IF num >= 0 THEN (2 * num + den) \div (2 * den)
    ELSE -((2 * (-num) + den) \div (2 * den))

\* int(x) of a quotient: truncation towards zero
TruncDiv(num, den) ==
    IF num >= 0 THEN num \div den ELSE -((-num) \div den)

(* ---------------------------------------------------------------------- *)
(* Logistics collaborator                                                  *)
(* ---------------------------------------------------------------------- *)
\* waiting for a weather window [s], sea time [s], total cost [1/10 cent]
LogisticOutcomes ==
    {<<0, 5400, 1000005>>, <<30 * Hour + 20, 4 * Hour, 2500494>>}

\* results of om_logistics_main for a request date and preparation time [h]
om_logistics_main(requestDate, PrepTime) ==
    {[findSolution |-> "NoSolutionsFound", optimal |-> NoOptimal],
     [findSolution |-> "NoWeatherWindowFound", optimal |-> NoOptimal]}
    \cup
    {[findSolution |-> "SolutionFound",
      optimal |-> [depart_dt |-> requestDate + PrepTime * Hour + o[1],
                   end_dt |-> requestDate + PrepTime * Hour + o[1] + o[2],
                   schedule_sea_time |-> o[2],
                   total_cost |-> o[3]]] : o \in LogisticOutcomes}

\* round(optLogisticCostValue, 2) in cents
RoundCost(mills) == RoundHalfAway(mills, 10)

(* ---------------------------------------------------------------------- *)
(* Cost of O&M                                                             *)
(* ---------------------------------------------------------------------- *)
workdays_summer == 5
workdays_winter == 5
\* wages in cents per hour
wage_specialist_day == 4000
wage_specialist_night == 6000
wage_technician_day == 2500
wage_technician_night == 3700

HalfHour == 1800

\* hours of the day half, or of the night half, worked up to the end date
HalfDayHours(workingHour) ==
    LET q == workingHour \div 24
        r == workingHour % 24
    IN  q * 12 + (IF r <= 12 THEN r ELSE 12)

\* the working hours of __calcCostOfOM in half hours: the sea time, its
\* weekday and weekend part, and its day and night part
WorkingHours(requestDate, depart, end, seaTime) ==
    LET summerTime == MonthOf(requestDate) \in {3, 4, 5, 6, 7, 8}
        workdays == IF summerTime THEN workdays_summer ELSE workdays_winter
        sea == seaTime \div HalfHour
        notWeekEnd == IF workdays <= 7
                      THEN (seaTime \div (daySeconds * workdays)) * 48
                      ELSE 0
        dayStart == Midnight(depart) + startDayWorkingHour * Hour
        nightStart == Midnight(depart) + (startDayWorkingHour + 12) * Hour
        diffHour == (depart - dayStart) \div Hour
        day == IF 0 <= diffHour /\ diffHour < 12
               THEN 2 * (HalfDayHours((end - dayStart) \div Hour) - diffHour)
               ELSE sea - 2 * (HalfDayHours((end - nightStart) \div Hour)
                               - diffHour)
    IN  [sea |-> sea, notWeekEnd |-> notWeekEnd,
         weekEnd |-> IF workdays <= 7 THEN sea - notWeekEnd ELSE 0,
         day |-> day, night |-> sea - day]

\* the four buckets of __calcCostOfOM, each as the numerator of a fraction of
\* half hours over totalDummy = weekEnd + notWeekEnd
LabourBuckets(w) ==
    [dayNotWeekend |-> w.day * w.notWeekEnd,
     dayWeekend |-> w.day * w.weekEnd,
     nightNotWeekend |-> w.night * w.notWeekEnd,
     nightWeekend |-> w.night * w.weekEnd]

\* a cost engine that charges the sea time left in the instance by the action
\* before instead of the sea time of its inputs
LeftoverCostOfOM(FM_ID, cidx, requestDate, depart, end, seaTime) ==
    [omCostValueSpare |-> Failure_Mode(cidx).cost_spare,
     labourNum |-> wage_technician_day * (totalSeaTimeHour \div HalfHour),
     labourDen |-> 2]

\* __calcCostOfOM: <<omCostValueSpare, omCostValue>> in cents; omCostValue
\* as a fraction <<numerator, denominator>> of cents above the spare cost
calcCostOfOM(FM_ID, cidx, requestDate, depart, end, seaTime) ==
    LET summerTime == MonthOf(requestDate) \in {3, 4, 5, 6, 7, 8}
        workdays == IF summerTime THEN workdays_summer ELSE workdays_winter
        sea == seaTime \div HalfHour
        notWeekEnd == IF workdays <= 7
                      THEN (seaTime \div (daySeconds * workdays)) * 48
                      ELSE 0
        weekEnd == IF workdays <= 7 THEN sea - notWeekEnd ELSE 0
        dayStart == Midnight(depart) + startDayWorkingHour * Hour
        nightStart == Midnight(depart) + (startDayWorkingHour + 12) * Hour
        diffHour == (depart - dayStart) \div Hour
        inDay == 0 <= diffHour /\ diffHour < 12
        dayHoursWorked ==
            IF inDay
            THEN 2 * (HalfDayHours((end - dayStart) \div Hour) - diffHour)
            ELSE sea - 2 * (HalfDayHours((end - nightStart) \div Hour)
                            - diffHour)
        nightHoursWorked == sea - dayHoursWorked
        totalDummy == weekEnd + notWeekEnd
        staff == IF HasInsp(FM_ID) THEN Inspection(cidx)
                 ELSE Repair_Action(cidx)
        dayWage == staff.number_specialists * wage_specialist_day
                   + staff.number_technicians * wage_technician_day
        nightWage == staff.number_specialists * wage_specialist_night
                     + staff.number_technicians * wage_technician_night
        spare == Failure_Mode(cidx).cost_spare
                 + Failure_Mode(cidx).cost_spare_transit
                 + Failure_Mode(cidx).cost_spare_loading
        labourNum == dayWage * dayHoursWorked * notWeekEnd
                     + nightWage * dayHoursWorked * weekEnd
                     + nightWage * nightHoursWorked * notWeekEnd
                     + nightWage * nightHoursWorked * weekEnd
    IN  [omCostValueSpare |-> spare,
         labourNum |-> IF totalDummy /= 0 THEN labourNum ELSE 0,
         labourDen |-> IF totalDummy /= 0 THEN 2 * totalDummy ELSE 1]

\* round(omCostValue, 2) in cents
RoundOmCost(c) == c.omCostValueSpare + RoundHalfAway(c.labourNum, c.labourDen)

\* int(omCostValue - omCostValueSpare) in whole currency units
LabourCostInt(c) == TruncDiv(c.labourNum, c.labourDen * 100)

(* ---------------------------------------------------------------------- *)
(* Scheduler loop of __calcLCOE_OfOM                                       *)
(* ---------------------------------------------------------------------- *)
\* the block the while loop enters next, from the top of an iteration
LoopTop(fCoBaMa, fCaBaMa, fUnCoMa) ==
    IF ~(fUnCoMa \/ fCaBaMa \/ fCoBaMa) THEN "post"
    ELSE IF Farm_OM.condition_based_maintenance /\ fCoBaMa THEN "CoBaMa"
    ELSE IF Farm_OM.calendar_based_maintenance /\ fCaBaMa THEN "CaBaMa"
    ELSE IF Farm_OM.corrective_maintenance /\ fUnCoMa THEN "UnCoMa"
    ELSE "spin"

\* after the Calendar block of an iteration that did not continue
AfterCaBaMa(fCoBaMa, fCaBaMa, fUnCoMa) ==
    IF Farm_OM.corrective_maintenance /\ fUnCoMa THEN "UnCoMa"
    ELSE LoopTop(fCoBaMa, fCaBaMa, fUnCoMa)

\* after the Condition block of an iteration that did not continue
AfterCoBaMa(fCoBaMa, fCaBaMa, fUnCoMa) ==
    IF Farm_OM.calendar_based_maintenance /\ fCaBaMa THEN "CaBaMa"
    ELSE AfterCaBaMa(fCoBaMa, fCaBaMa, fUnCoMa)

\* every enabled track active from the start
AllEnabledFlags ==
    [CaBaMa |-> Farm_OM.calendar_based_maintenance,
     UnCoMa |-> Farm_OM.corrective_maintenance,
     CoBaMa |-> Farm_OM.condition_based_maintenance]

\* the track flags at the head of __calcLCOE_OfOM: the first enabled track
\* in the order Calendar, Corrective, Condition
StartFlags ==
    [CaBaMa |-> Farm_OM.calendar_based_maintenance,
     UnCoMa |-> (~Farm_OM.calendar_based_maintenance
                 /\ Farm_OM.corrective_maintenance),
     CoBaMa |-> (~Farm_OM.calendar_based_maintenance
                 /\ ~Farm_OM.corrective_maintenance
                 /\ Farm_OM.condition_based_maintenance)]

\* executeCalc without pre-flight flag: the NoError row, then the head of
\* __calcLCOE_OfOM up to the first test of the while loop
StartOM ==
    /\ pc = "initialised"
    /\ ~(integrateSelectPort \/ checkNoSolution)
    /\ errorTable' = SetRow(errorTable, 0, NoErrorRow)
    /\ outputsOfWP6' = [outputsOfWP6 EXCEPT !.error = errorTable']
    /\ actIdxOfUnCoMa' = 0
    /\ actIdxOfCaBaMa' = 0
    /\ actIdxOfCoBaMa' = 0
    /\ loopValuesForOutput_CoBaMa' = 0
    /\ loopValuesForOutput_CaBaMa' = 0
    /\ loopValuesForOutput_UnCoMa' = 0
    /\ totalActionDelayHour' = 0
    /\ flagCalcCaBaMa' = StartFlags.CaBaMa
    /\ flagCalcUnCoMa' = StartFlags.UnCoMa
    /\ flagCalcCoBaMa' = StartFlags.CoBaMa
    /\ pc' = LoopTop(flagCalcCoBaMa', flagCalcCaBaMa', flagCalcUnCoMa')
    /\ phases' = phases \cup {"calcLCOE_OfOM"}
    /\ UNCHANGED statVars
    /\ UNCHANGED <<config, exception, arrayDict, tables, opVars,
                   NrOfTurnOutDevices, logVars, errorFlag,
                   indexNoSolutionsFound, logisticVars>>

\* the keys of arrayDict that name a device
DeviceKeys(dict) == {key \in DOMAIN dict : HasDevice(key)}

\* the list replaced by the new entry
OverwriteLedger(dict, key, name, value) ==
    [dict EXCEPT ![key].ledger[name] = <<value>>]

\* a ledger that books one cent more than the value handed to it
AppendSurcharged(dict, key, name, value) ==
    [dict EXCEPT ![key].ledger[name] = Append(@, value + 1)]

AppendLedger(dict, key, name, value) ==
    [dict EXCEPT ![key].ledger[name] = Append(@, value)]

\* the entry of logisticRequests kept for one call of __calcLogistic
LogisticRequest(track, requestDate, PrepTime) ==
    [track |-> track, requestDate |-> requestDate, PrepTime |-> PrepTime,
     NrOfTurnOutDevices |-> NrOfTurnOutDevices]

(* ---------------------------------------------------------------------- *)
(* Corrective track                                                        *)
(* ---------------------------------------------------------------------- *)
\* ComponentType[0:-3]
SubSystemOf(ComponentType) == StripIndex(ComponentType)

\* rows of the Calendar table that the cool-down test of a Corrective row reads
CoolDownRows(row) ==
    IF HasSubhub(row.ComponentType)
    THEN SelectSeq(CaBaMa_eventsTable,
                   LAMBDA c : /\ c.ComponentType = row.ComponentType
                              /\ c.FM_ID = row.FM_ID
                              /\ c.indexFM = row.indexFM)
    ELSE SelectSeq(CaBaMa_eventsTable,
                   LAMBDA c : /\ c.RA_ID = row.RA_ID
                              /\ c.ComponentSubType =
                                    (IF HasDevice(row.ComponentType)
                                     THEN row.ComponentSubType
                                     ELSE SubSystemOf(row.ComponentType))
                              /\ c.FM_ID = row.FM_ID
                              /\ c.indexFM = row.indexFM)

\* foundDeleteFlag: a Calendar action on the same element ended less than
\* delayEventsAfterCaBaMaHour before the request
foundDeleteFlag(row, repairActionEvents) ==
    /\ Farm_OM.calendar_based_maintenance
    /\ 1 < Len(CoolDownRows(row))
    /\ \E i \in DOMAIN CoolDownRows(row) :
          (repairActionEvents - CoolDownRows(row)[i].currentEndActionDate)
              \div Hour < delayEventsAfterCaBaMaHour

\* the device loop of __get_lcoe_unplanned on arrayDict
UnCoMaDeviceList(dict, ComponentID) ==
    {key \in DOMAIN dict :
        /\ HasDevice(key)
        /\ dict[key].UnCoMaNoWeatherWindow
        /\ ("All" \in dict[ComponentID].Breakdown
            \/ key \in dict[ComponentID].Breakdown)}

UnCoMaDeviceLoop(dict, row, failureDate, totalDownTimeHours) ==
    LET hit == UnCoMaDeviceList(dict, row.ComponentID)
        onDevice == HasDevice(row.ComponentType)
        events(d) ==
            [d EXCEPT
               !.ledger.UnCoMaOpEvents = Append(@, failureDate),
               !.ledger.UnCoMaOpEventsDuration =
                   Append(@, totalDownTimeHours * 60),
               !.ledger.UnCoMaOpEventsIndexFM = Append(@, row.indexFM),
               !.ledger.UnCoMaOpEventsCausedBy = Append(@, row.ComponentID)]
        costs(d) ==
            IF onDevice THEN d
            ELSE [d EXCEPT !.ledger.UnCoMaCostLogistic = Append(@, 0),
                           !.ledger.UnCoMaCostOM = Append(@, 0)]
    IN  [key \in DOMAIN dict |->
            IF key \in hit THEN costs(events(dict[key]))
            ELSE IF key = row.ComponentID /\ hit /= {} /\ ~onDevice
            THEN [dict[key] EXCEPT !.UnCoMaNoWeatherWindow = TRUE]
            ELSE dict[key]]

\* rows shifted by __updatePoissonEvents for an index already advanced
ShiftedByPoisson(table, dict, actIdx) ==
    LET first == Row(table, 0)
        whole == /\ first.belongsTo = "Array"
                 /\ "All" \in dict[first.ComponentID].Breakdown
    IN  {i \in (actIdx + 1)..(Len(table) - 1) :
            \/ whole
            \/ /\ Row(table, i).ComponentID = first.ComponentID
               /\ Row(table, i).belongsTo
                      \in dict[first.ComponentID].Breakdown}

\* __updatePoissonEvents: the table with failure and request dates shifted by
\* the sea time
updatePoissonEvents(table, dict, actIdx, seaTime) ==
    [k \in DOMAIN table |->
        IF (k - 1) \in ShiftedByPoisson(table, dict, actIdx)
        THEN [table[k] EXCEPT !.failureEvents = @ + seaTime,
                              !.repairActionEvents = @ + seaTime]
        ELSE table[k]]

\* the values __get_lcoe_unplanned works on, before the step
UnCoMaBefore ==
    [table |-> UnCoMa_eventsTable, actIdx |-> actIdxOfUnCoMa,
     fCoBaMa |-> flagCalcCoBaMa, fUnCoMa |-> flagCalcUnCoMa,
     loopValues |-> loopValuesForOutput_UnCoMa,
     totalActionDelayHour |-> totalActionDelayHour,
     totalSeaTimeHour |-> totalSeaTimeHour,
     departOpDate |-> departOpDate, endOpDate |-> endOpDate,
     repairActionDate |-> repairActionDate,
     NrOfTurnOutDevices |-> NrOfTurnOutDevices, arrayDict |-> arrayDict,
     log |-> UnCoMa_outputEventsTable, om_logistic |-> om_logistic,
     requests |-> logisticRequests, sorted |-> FALSE, exception |-> "none"]

\* a simulateFlag that no test clears
AlwaysSimulate(row) == TRUE

\* simulateFlag of a Corrective row
UnCoMaSimulate(row) ==
    /\ NrOfDevices /= NrOfTurnOutDevices
    /\ ~(/\ row.belongsTo = "Array"
         /\ arrayDict[row.ComponentID].UnCoMaNoWeatherWindow)
    /\ ~(/\ row.belongsTo /= "Array"
         /\ HasDevice(row.ComponentType)
         /\ arrayDict[row.ComponentType].UnCoMaNoWeatherWindow)

\* the request date of the row after the shift by the accumulated delay
\* a test that lets every date pass as within the operation time
NeverPastHorizon(date) == FALSE

\* self.__endOperationDate < self.__repairActionDate
PastHorizon(date) == endOperationDate < date

UnCoMaRequestDate(row) ==
    IF totalActionDelayHour < 0
    THEN row.repairActionEvents - totalActionDelayHour * Hour
    ELSE row.repairActionEvents

\* whether the step for the row calls the logistics collaborator
UnCoMaDispatches ==
    /\ actIdxOfUnCoMa < Len(UnCoMa_eventsTable)
    /\ LET row == Row(UnCoMa_eventsTable, actIdxOfUnCoMa)
       IN  /\ UnCoMaSimulate(row)
           /\ ~PastHorizon(UnCoMaRequestDate(row))
           /\ ~foundDeleteFlag(row, UnCoMaRequestDate(row))

\* the row written to UnCoMa_outputEventsTable
UnCoMaOutputRow(row, request, depart, downtime, seaTime, optimal, cost, downtimeDeviceList) ==
    [failureRate |-> row.failureRate,
     failureDate |-> TruncMinute(row.failureEvents),
     repairActionRequestDate |-> TruncMinute(request),
     repairActionDate |-> TruncMinute(depart),
     downtimeDuration |-> downtime,
     seatimeDuration |-> seaTime,
     waitingtimeDuration |-> downtime * Hour - seaTime,
     ComponentType |-> row.ComponentType,
     ComponentSubType |-> row.ComponentSubType,
     ComponentID |-> row.ComponentID, FM_ID |-> row.FM_ID,
     RA_ID |-> row.RA_ID, indexFM |-> row.indexFM,
     costLogistic |-> optimal.total_cost \div 1000,
     costOM_Labor |-> LabourCostInt(cost),
     costOM_Spare |-> cost.omCostValueSpare \div 100,
     downtimeDeviceList |-> downtimeDeviceList]

\* the part of the step after the logistics call, for a realized action
UnCoMaRealize(b, row, request, result) ==
    LET found == result.findSolution = "SolutionFound"
        optimal == result.optimal
        end == IF found THEN TruncMinute(optimal.end_dt) ELSE b.endOpDate
        depart == IF found THEN TruncMinute(optimal.depart_dt)
                  ELSE endOperationDate
        shiftNext == found /\ b.actIdx < Len(b.table) - 1
        delay == IF shiftNext
                 THEN b.totalActionDelayHour
                      + (Row(b.table, b.actIdx + 1).repairActionEvents - end)
                            \div Hour
                 ELSE b.totalActionDelayHour
        seaTime == IF found THEN optimal.schedule_sea_time
                   ELSE b.totalSeaTimeHour
        downtime == IF found THEN (end - row.failureEvents) \div Hour
                    ELSE (endOperationDate - row.failureEvents) \div Hour
        \* the one call of __calcCostOfOM, its result bound to cost below
        costOfOM == calcCostOfOM(row.FM_ID,
                        CompIDWithIndex(row.ComponentID, row.indexFM),
                        request, depart, end, seaTime)
    IN  CHOOSE after \in {(
    LET logisticcost == IF found THEN RoundCost(optimal.total_cost) ELSE 0
        omcost == IF found THEN RoundOmCost(cost) ELSE 0
        owner == IF row.belongsTo = "Array" THEN row.ComponentID
                 ELSE row.ComponentType
        booked == IF row.belongsTo = "Array" \/ HasDevice(row.ComponentType)
                  THEN AppendLedger(
                           AppendLedger(b.arrayDict, owner,
                                        "UnCoMaCostLogistic", logisticcost),
                           owner, "UnCoMaCostOM", omcost)
                  ELSE b.arrayDict
        devices == UnCoMaDeviceList(booked, row.ComponentID)
        dict == UnCoMaDeviceLoop(booked, row, row.failureEvents, downtime)
        table == updatePoissonEvents(b.table, dict, b.actIdx, seaTime)
        done == [b EXCEPT
                   !.endOpDate = end, !.departOpDate = depart,
                   !.totalActionDelayHour = delay,
                   !.totalSeaTimeHour = seaTime,
                   !.arrayDict = dict,
                   !.NrOfTurnOutDevices =
                       IF ignoreWeatherWindow THEN @ + Cardinality(devices)
                       ELSE @,
                   !.loopValues = @ + 1,
                   !.table = table, !.sorted = TRUE]
    IN  IF found
        THEN [done EXCEPT
                !.log = SetRow(@, done.loopValues,
                               UnCoMaOutputRow(row, request, depart, downtime,
                                               seaTime, optimal, cost,
                                               devices))]
        ELSE [done EXCEPT !.exception = "UnboundLocalError"]
        ) : cost \in {costOfOM}} : TRUE

\* __get_lcoe_unplanned for the logistics result of the step
get_lcoe_unplanned(result) ==
    LET b == UnCoMaBefore
    IN  IF ~(b.actIdx < Len(b.table))
        THEN [b EXCEPT !.exception = "KeyError"]
        ELSE
        LET row == Row(b.table, b.actIdx)
            request == UnCoMaRequestDate(row)
            shifted == [b EXCEPT
                          !.table = SetRow(@, b.actIdx,
                              [row EXCEPT !.repairActionEvents = request]),
                          !.repairActionDate = request]
            called == [shifted EXCEPT
                          !.actIdx = @ + 1,
                          !.om_logistic = result,
                          !.requests = Append(@,
                              LogisticRequest("UnCoMa", request,
                                              PrepTimeCalcUnCoMa))]
        IN  IF ~UnCoMaSimulate(row)
            THEN [b EXCEPT !.actIdx = @ + 1]
            ELSE IF PastHorizon(request)
            THEN [shifted EXCEPT
                    !.fUnCoMa = FALSE,
                    !.fCoBaMa = IF Farm_OM.condition_based_maintenance
                                THEN TRUE ELSE @]
            ELSE IF foundDeleteFlag(row, request)
            THEN [shifted EXCEPT !.actIdx = @ + 1]
            ELSE IF result.findSolution = "NoSolutionsFound"
            THEN called
            ELSE IF /\ result.findSolution = "NoWeatherWindowFound"
                    /\ ~ignoreWeatherWindow
            THEN called
            ELSE UnCoMaRealize(called, row, request, result)

\* one pass of the Corrective block of the while loop
UnCoMaStep ==
    /\ pc = "UnCoMa"
    /\ \E result \in
            IF UnCoMaDispatches
            THEN om_logistics_main(
                     UnCoMaRequestDate(Row(UnCoMa_eventsTable, actIdxOfUnCoMa)),
                     PrepTimeCalcUnCoMa)
            ELSE {om_logistic} :
      \E a \in {get_lcoe_unplanned(result)} :
        LET raised == a.exception /= "none"
            exhausted == ~raised /\ a.actIdx = Len(a.table)
            fUnCoMa == IF exhausted THEN FALSE ELSE a.fUnCoMa
            fCoBaMa == IF exhausted /\ Farm_OM.condition_based_maintenance
                       THEN TRUE ELSE a.fCoBaMa
        IN  /\ UnCoMa_eventsTable' = a.table
            /\ \E order \in IF a.sorted
                            THEN SortedOrders(a.table, RepairActionKey)
                            ELSE {UnCoMa_index} : UnCoMa_index' = order
            /\ actIdxOfUnCoMa' = a.actIdx
            /\ loopValuesForOutput_UnCoMa' =
                   IF raised THEN loopValuesForOutput_UnCoMa ELSE a.loopValues
            /\ totalActionDelayHour' = a.totalActionDelayHour
            /\ totalSeaTimeHour' = a.totalSeaTimeHour
            /\ departOpDate' = a.departOpDate
            /\ endOpDate' = a.endOpDate
            /\ repairActionDate' = a.repairActionDate
            /\ NrOfTurnOutDevices' = a.NrOfTurnOutDevices
            /\ arrayDict' = a.arrayDict
            /\ UnCoMa_outputEventsTable' = a.log
            /\ om_logistic' = a.om_logistic
            /\ logisticRequests' = a.requests
            /\ \E param \in IF Len(a.requests) > Len(logisticRequests)
                             THEN calcLogistic(Logistic_Param)
                             ELSE {Logistic_Param} :
                    Logistic_Param' = param
            /\ exception' = a.exception
            /\ flagCalcUnCoMa' = IF raised THEN flagCalcUnCoMa ELSE fUnCoMa
            /\ flagCalcCoBaMa' = IF raised THEN flagCalcCoBaMa ELSE fCoBaMa
            /\ pc' = IF raised THEN "raised"
                     ELSE LoopTop(fCoBaMa, flagCalcCaBaMa, fUnCoMa)
    /\ UNCHANGED statVars
    /\ UNCHANGED <<config, phases, eventsTableNoPoisson, CaBaMa_eventsTable,
                   CoBaMa_eventsTable, actIdxOfCaBaMa, actIdxOfCoBaMa,
                   flagCalcCaBaMa, loopValuesForOutput_CaBaMa,
                   loopValuesForOutput_CoBaMa, CaBaMa_outputEventsTable,
                   CoBaMa_outputEventsTable, errorVars, outputsOfWP6>>

(* ---------------------------------------------------------------------- *)
(* Condition track                                                         *)
(* ---------------------------------------------------------------------- *)
powerDeratingCoBaMa == 50
timeExtensionDeratingCoBaMaHour == 3 * 30 * dayHours
\* cents per kWh
energy_selling_price == 20

\* the values __get_lcoe_condition works on, before the step
CoBaMaBefore ==
    [table |-> CoBaMa_eventsTable, actIdx |-> actIdxOfCoBaMa,
     fCoBaMa |-> flagCalcCoBaMa,
     loopValues |-> loopValuesForOutput_CoBaMa,
     totalSeaTimeHour |-> totalSeaTimeHour,
     departOpDate |-> departOpDate, endOpDate |-> endOpDate,
     repairActionDate |-> repairActionDate,
     NrOfTurnOutDevices |-> NrOfTurnOutDevices, arrayDict |-> arrayDict,
     log |-> CoBaMa_outputEventsTable, om_logistic |-> om_logistic,
     requests |-> logisticRequests, sorted |-> FALSE, exception |-> "none"]

\* simulateFlag of a Condition row
CoBaMaSimulate(row) ==
    /\ NrOfDevices /= NrOfTurnOutDevices
    /\ ~(/\ row.belongsTo = "Array"
         /\ arrayDict[row.ComponentID].CoBaMaNoWeatherWindow)
    /\ ~(/\ row.belongsTo /= "Array"
         /\ HasDevice(row.ComponentType)
         /\ arrayDict[row.ComponentID].CoBaMaNoWeatherWindow)

\* whether the step for the row calls the logistics collaborator
CoBaMaDispatches ==
    /\ actIdxOfCoBaMa < Len(CoBaMa_eventsTable)
    /\ ~IsNaN(Row(CoBaMa_eventsTable, actIdxOfCoBaMa))
    /\ CoBaMaSimulate(Row(CoBaMa_eventsTable, actIdxOfCoBaMa))

\* rows of the Calendar table that the Condition row is compared with
DeratingRows(row) ==
    IF HasSubhub(row.ComponentType)
    THEN SelectSeq(CaBaMa_eventsTable,
                   LAMBDA c : /\ c.ComponentType =
                                    (IF row.flagCaBaMa THEN row.ComponentType
                                     ELSE SubSystemOf(row.ComponentType))
                              /\ c.FM_ID = row.FM_ID
                              /\ c.indexFM = row.indexFM)
    ELSE SelectSeq(CaBaMa_eventsTable,
                   LAMBDA c : /\ c.RA_ID = row.RA_ID
                              /\ c.ComponentSubType =
                                    (IF HasDevice(row.ComponentType)
                                     THEN row.ComponentSubType
                                     ELSE SubSystemOf(row.ComponentType))
                              /\ c.FM_ID = row.FM_ID
                              /\ c.indexFM = row.indexFM)

\* the first Calendar action that starts less than the derating extension
\* after the alarm; 0 when there is none
DeratingIndex(dummy, alarm) ==
    LET near == {i \in DOMAIN dummy :
                    (dummy[i].currentStartActionDate - alarm) \div Hour
                        < timeExtensionDeratingCoBaMaHour}
    IN  IF near = {} THEN 0 ELSE CHOOSE i \in near : \A j \in near : i <= j

\* __switch_to_calendar: the exception it raises, or whether waiting for the
\* Calendar action with derated power pays more than the Condition action
switch_to_calendar(dummy, alarm, currentEndDate, totalCostCoBaMa) ==
    LET i == DeratingIndex(dummy, alarm)
        startdate == dummy[i].currentStartActionDate
        CoBaMaEndDate == IF currentEndDate <= startdate THEN currentEndDate
                         ELSE startdate
        CoBaMaTime == (startdate - CoBaMaEndDate) \div Hour
        extended == CoBaMaEndDate + timeExtensionDeratingCoBaMaHour * Hour
        CaBaMaEndDate == IF startdate <= extended THEN startdate ELSE extended
        CaBaMaTime == (startdate - CaBaMaEndDate) \div Hour
        power == AnnualEnergyWP2 \div yearHours
        \* benefits in cents, times 1000 * 100
        CoBaMaBenefit == 100 * CoBaMaTime * power * energy_selling_price
                         - 100000 * totalCostCoBaMa
        CaBaMaBenefit == CaBaMaTime * power * energy_selling_price
                             * powerDeratingCoBaMa
                         - 100000 * (dummy[i].logisticCost + dummy[i].omCost)
    IN  IF i = 0 THEN [exception |-> "UnboundLocalError", solution |-> FALSE]
        ELSE IF i = 1 THEN [exception |-> "RuntimeError", solution |-> FALSE]
        ELSE [exception |-> "none", solution |-> CoBaMaBenefit <= CaBaMaBenefit]

\* the row written to CoBaMa_outputEventsTable
CoBaMaOutputRow(row, depart, downtime, logisticMills, cost, downtimeDeviceList) ==
    [failureRate |-> row.failureRate,
     currentAlarmDate |-> row.currentAlarmDate,
     repairActionRequestDate |-> row.currentAlarmDate,
     repairActionDate |-> TruncMinute(depart),
     downtimeDuration |-> downtime,
     ComponentType |-> row.ComponentType,
     ComponentSubType |-> row.ComponentSubType,
     ComponentID |-> row.ComponentID, FM_ID |-> row.FM_ID,
     RA_ID |-> row.RA_ID, indexFM |-> row.indexFM,
     costLogistic |-> logisticMills \div 1000,
     costOM_Labor |-> LabourCostInt(cost),
     costOM_Spare |-> cost.omCostValueSpare \div 100,
     downtimeDeviceList |-> downtimeDeviceList]

\* the first wear-out draw after both dates; 0 when there is none
NextDraw(series, newStart, currentEndDate) ==
    LET later == {i \in DOMAIN series :
                     newStart < series[i] /\ currentEndDate < series[i]}
    IN  IF later = {} THEN 0 ELSE CHOOSE i \in later : \A j \in later : i <= j

\* the Condition table extended by the row of the next alarm: the copy of
\* the current row goes to the end, the dates go to the row before it
Continuation(table, actIdx, newStart, newEnd) ==
    LET row == Row(table, actIdx)
        pidx == Len(table) - 1
        last == Row(table, pidx)
    IN  Append(SetRow(table, pidx,
                      [last EXCEPT
                         !.currentStartDate = newStart,
                         !.currentEndDate = newEnd,
                         !.currentAlarmDate =
                             AlarmDate(newStart, newEnd, row.threshold)]),
               row)

NoCost == [omCostValueSpare |-> 0, labourNum |-> 0, labourDen |-> 1]

\* the part of the step after the logistics call, for an action that is
\* neither dropped nor skipped
CoBaMaRealize(b, row, result) ==
    LET found == result.findSolution = "SolutionFound"
        optimal == result.optimal
        realized == ~ignoreWeatherWindow
        end == IF realized THEN TruncMinute(optimal.end_dt) ELSE b.endOpDate
        depart == IF realized THEN TruncMinute(optimal.depart_dt)
                  ELSE endOperationDate
        seaTime == IF realized THEN optimal.schedule_sea_time
                   ELSE b.totalSeaTimeHour
        downtime == IF realized THEN (end - row.currentAlarmDate) \div Hour
                    ELSE (endOperationDate - row.currentAlarmDate) \div Hour
        \* the one call of __calcCostOfOM, its result bound to cost below
        costOfOM == IF realized
                    THEN calcCostOfOM(row.FM_ID,
                             CompIDWithIndex(row.ComponentID, row.indexFM),
                             row.currentAlarmDate, depart, end, seaTime)
                    ELSE NoCost
    IN  CHOOSE after \in {(
    LET logisticMills == IF realized THEN optimal.total_cost ELSE 0
        dummy == DeratingRows(row)
        compare == /\ realized
                   /\ row.flagCaBaMa \/ Farm_OM.calendar_based_maintenance
                   /\ 1 < Len(dummy) /\ HasDevice(row.ComponentType)
        switch == IF compare
                  THEN switch_to_calendar(dummy, row.currentAlarmDate,
                           row.currentEndDate,
                           RoundCost(logisticMills) + RoundOmCost(cost))
                  ELSE [exception |-> "none", solution |-> FALSE]
        timed == [b EXCEPT !.endOpDate = end, !.departOpDate = depart,
                           !.totalSeaTimeHour = seaTime]
        owner == IF row.belongsTo = "Array" THEN row.ComponentID
                 ELSE row.ComponentType
        derated == AppendLedger(
                       AppendLedger(b.arrayDict, owner,
                           "CoBaMaDeratingCostLogistic", dummy[1].logisticCost),
                       owner, "CoBaMaDeratingCostOM", dummy[1].omCost)
        booked == IF row.belongsTo = "Array" \/ HasDevice(row.ComponentType)
                  THEN AppendLedger(
                           AppendLedger(b.arrayDict, owner,
                               "CoBaMaCostLogistic", RoundCost(logisticMills)),
                           owner, "CoBaMaCostOM", RoundOmCost(cost))
                  ELSE b.arrayDict
        unread == \E key \in DOMAIN booked :
                      HasDevice(key) /\ ~booked[key].CoBaMaNoWeatherWindow
        logged == [timed EXCEPT
                     !.arrayDict = booked,
                     !.log = SetRow(@, b.loopValues,
                                 CoBaMaOutputRow(row, depart, downtime,
                                                 logisticMills, cost, {})),
                     !.loopValues = @ + 1]
        series == booked[row.ComponentID].CoBaMa_initOpEventsList[row.indexFM]
        index == NextDraw(series, end, row.currentEndDate)
    IN  IF switch.exception /= "none"
        THEN [timed EXCEPT !.exception = switch.exception]
        ELSE IF switch.solution
        THEN IF row.flagCaBaMa
             THEN [timed EXCEPT !.exception = "KeyError"]
             ELSE [timed EXCEPT !.arrayDict = derated,
                                !.exception = "UnboundLocalError"]
        ELSE IF unread
        THEN [timed EXCEPT !.arrayDict = booked,
                           !.exception = "UnboundLocalError"]
        ELSE IF ~found
        THEN [logged EXCEPT !.actIdx = @ + 1,
                            !.exception = "UnboundLocalError"]
        ELSE IF ~realized
        THEN [logged EXCEPT !.exception = "UnboundLocalError"]
        ELSE IF index = 0
        THEN [logged EXCEPT !.exception = "RuntimeError"]
        ELSE [logged EXCEPT
                !.table = Continuation(@, b.actIdx, end, series[index]),
                !.sorted = TRUE,
                !.actIdx = @ + 1,
                !.exception = "UnboundLocalError"]
        ) : cost \in {costOfOM}} : TRUE

\* a handler that asks the logistics, absorbs every failure and advances
AbsorbCondition(result) ==
    [CoBaMaBefore EXCEPT
        !.actIdx = @ + 1,
        !.om_logistic = result,
        !.requests = Append(@,
            LogisticRequest("CoBaMa",
                Row(CoBaMa_eventsTable, actIdxOfCoBaMa).currentAlarmDate,
                PrepTimeCalcCoBaMa))]

\* __get_lcoe_condition for the logistics result of the step
get_lcoe_condition(result) ==
    LET b == CoBaMaBefore
        row == Row(b.table, b.actIdx)
        dated == [b EXCEPT !.repairActionDate = row.currentAlarmDate]
        skipped == [dated EXCEPT !.actIdx = @ + 1]
        called == [dated EXCEPT
                     !.om_logistic = result,
                     !.requests = Append(@,
                         LogisticRequest("CoBaMa", row.currentAlarmDate,
                                         PrepTimeCalcCoBaMa))]
    IN  IF IsNaN(row)
        THEN [b EXCEPT !.exception = "AttributeError"]
        ELSE IF ~CoBaMaSimulate(row)
        THEN IF skipped.actIdx = Len(b.table)
             THEN [skipped EXCEPT !.fCoBaMa = FALSE]
             ELSE [skipped EXCEPT !.exception = "UnboundLocalError"]
        ELSE IF \/ result.findSolution = "NoSolutionsFound"
                \/ /\ result.findSolution = "NoWeatherWindowFound"
                   /\ ~ignoreWeatherWindow
        THEN [called EXCEPT !.actIdx = @ + 1,
                            !.exception = "UnboundLocalError"]
        ELSE CoBaMaRealize(called, row, result)

\* one pass of the Condition block of the while loop
CoBaMaStep ==
    /\ pc = "CoBaMa"
    /\ \E result \in
            IF CoBaMaDispatches
            THEN om_logistics_main(
                     Row(CoBaMa_eventsTable, actIdxOfCoBaMa).currentAlarmDate,
                     PrepTimeCalcCoBaMa)
            ELSE {om_logistic} :
      \E a \in {IF Len(CoBaMa_eventsTable) <= actIdxOfCoBaMa
                 THEN [CoBaMaBefore EXCEPT !.fCoBaMa = FALSE]
                 ELSE get_lcoe_condition(result)} :
        LET raised == a.exception /= "none"
            exhausted == Len(CoBaMa_eventsTable) <= actIdxOfCoBaMa
        IN  /\ \E order \in IF a.sorted
                            THEN SortedOrders(a.table, AlarmKey)
                            ELSE {IdentityOrder(a.table)} :
                    CoBaMa_eventsTable' = Reorder(a.table, order)
            /\ actIdxOfCoBaMa' = a.actIdx
            /\ loopValuesForOutput_CoBaMa' =
                   IF raised THEN loopValuesForOutput_CoBaMa ELSE a.loopValues
            /\ totalSeaTimeHour' = a.totalSeaTimeHour
            /\ departOpDate' = a.departOpDate
            /\ endOpDate' = a.endOpDate
            /\ repairActionDate' = a.repairActionDate
            /\ NrOfTurnOutDevices' = a.NrOfTurnOutDevices
            /\ arrayDict' = a.arrayDict
            /\ CoBaMa_outputEventsTable' = a.log
            /\ om_logistic' = a.om_logistic
            /\ logisticRequests' = a.requests
            /\ \E param \in IF Len(a.requests) > Len(logisticRequests)
                             THEN calcLogistic(Logistic_Param)
                             ELSE {Logistic_Param} :
                    Logistic_Param' = param
            /\ exception' = a.exception
            /\ flagCalcCoBaMa' = IF raised THEN flagCalcCoBaMa ELSE a.fCoBaMa
            /\ pc' = IF raised THEN "raised"
                     ELSE IF exhausted
                     THEN LoopTop(a.fCoBaMa, flagCalcCaBaMa, flagCalcUnCoMa)
                     ELSE AfterCoBaMa(a.fCoBaMa, flagCalcCaBaMa, flagCalcUnCoMa)
    /\ UNCHANGED statVars
    /\ UNCHANGED <<config, phases, eventsTableNoPoisson, UnCoMa_eventsTable,
                   UnCoMa_index, CaBaMa_eventsTable, actIdxOfUnCoMa,
                   actIdxOfCaBaMa, flagCalcUnCoMa, flagCalcCaBaMa,
                   loopValuesForOutput_UnCoMa, loopValuesForOutput_CaBaMa,
                   totalActionDelayHour, UnCoMa_outputEventsTable,
                   CaBaMa_outputEventsTable, errorVars, outputsOfWP6>>

(* ---------------------------------------------------------------------- *)
(* Calendar track                                                          *)
(* ---------------------------------------------------------------------- *)
\* the values __get_lcoe_calendar works on, before the step; bound holds
\* the flags the function has assigned
CaBaMaBefore ==
    [table |-> CaBaMa_eventsTable, actIdx |-> actIdxOfCaBaMa,
     fCoBaMa |-> flagCalcCoBaMa, fCaBaMa |-> flagCalcCaBaMa,
     fUnCoMa |-> flagCalcUnCoMa, bound |-> {},
     loopValues |-> loopValuesForOutput_CaBaMa,
     totalSeaTimeHour |-> totalSeaTimeHour,
     departOpDate |-> departOpDate, endOpDate |-> endOpDate,
     repairActionDate |-> repairActionDate, arrayDict |-> arrayDict,
     log |-> CaBaMa_outputEventsTable, om_logistic |-> om_logistic,
     requests |-> logisticRequests, stopped |-> FALSE, exception |-> "none"]

\* dummyCaBaMaTable: the rows that share the action of the current row
BlockRows(table, row) ==
    IF HasSubhub(row.ComponentType)
    THEN SelectSeq(table,
                   LAMBDA c : /\ c.ComponentType = row.ComponentType
                              /\ c.startActionDate = row.startActionDate
                              /\ c.FM_ID = row.FM_ID
                              /\ c.indexFM = row.indexFM)
    ELSE SelectSeq(table,
                   LAMBDA c : /\ c.RA_ID = row.RA_ID
                              /\ c.ComponentSubType =
                                    (IF HasDevice(row.ComponentType)
                                     THEN row.ComponentSubType
                                     ELSE SubSystemOf(row.ComponentType))
                              /\ c.startActionDate = row.startActionDate
                              /\ c.FM_ID = row.FM_ID
                              /\ c.indexFM = row.indexFM)

\* blockNumberList: full blocks of CaBaMa_nrOfMaxActions, then the remainder
BlockNumberList(n) ==
    LET q == n \div CaBaMa_nrOfMaxActions
        r == n % CaBaMa_nrOfMaxActions
    IN  [k \in 1..q |-> CaBaMa_nrOfMaxActions] \o <<r>>

\* the request date of block iCnt (from 0); None when the block has no row
BlockStart(dummy, iCnt) ==
    IF iCnt * CaBaMa_nrOfMaxActions < Len(dummy)
    THEN Row(dummy, iCnt * CaBaMa_nrOfMaxActions).currentStartActionDate
    ELSE None

\* the row of the Calendar log for row j (from 1) of a block
CaBaMaOutputRow(row, member, start, shifted, blockhours, optimal, cost, downtimeDeviceList) ==
    [startActionDate |-> start,
     repairActionDate |-> shifted,
     downtimeDuration |-> blockhours,
     ComponentType |-> member.ComponentType,
     ComponentSubType |-> member.ComponentSubType,
     ComponentID |-> member.ComponentID, FM_ID |-> row.FM_ID,
     RA_ID |-> row.RA_ID, indexFM |-> row.indexFM,
     costLogistic |-> optimal.total_cost \div 1000,
     costOM_Labor |-> LabourCostInt(cost),
     costOM_Spare |-> cost.omCostValueSpare \div 100,
     downtimeDeviceList |-> downtimeDeviceList]

\* the devices of arrayDict hit by an action on the component
DevicesHit(dict, ComponentID) ==
    IF "All" \in dict[ComponentID].Breakdown THEN DeviceKeys(dict)
    ELSE dict[ComponentID].Breakdown

RECURSIVE BookBlockCosts(_, _, _, _)
\* the cost of the action booked once per row of the block
BookBlockCosts(dict, owners, logisticcost, omcost) ==
    IF owners = <<>> THEN dict
    ELSE BookBlockCosts(
             AppendLedger(AppendLedger(dict, Head(owners),
                                       "CaBaMaCostLogistic", logisticcost),
                          Head(owners), "CaBaMaCostOM", omcost),
             Tail(owners), logisticcost, omcost)

\* one block of the Calendar step: rows bidx .. bidx + blockNumber - 1 of
\* dummy, the rows actIdx .. of the table
CaBaMaBlock(b, row, dummy, iCnt, blockNumber, result) ==
    LET bidx == iCnt * CaBaMa_nrOfMaxActions
        start == BlockStart(dummy, iCnt)
        members == [j \in 1..blockNumber |-> Row(dummy, bidx + j - 1)]
        last == members[blockNumber]
        found == result.findSolution = "SolutionFound"
        optimal == result.optimal
        end == IF found THEN TruncMinute(optimal.end_dt) ELSE start
        depart == IF found THEN TruncMinute(optimal.depart_dt)
                  ELSE b.departOpDate
        seaTime == IF found THEN optimal.schedule_sea_time
                   ELSE b.totalSeaTimeHour
        totalDownTimeHours == IF found THEN (end - start) \div Hour ELSE 0
        \* the one call of __calcCostOfOM, its result bound to cost below
        costOfOM == IF found
                    THEN calcCostOfOM(row.FM_ID,
                             CompIDWithIndex(last.ComponentID, row.indexFM),
                             start, depart, end, seaTime)
                    ELSE NoCost
    IN  CHOOSE after \in {(
    LET logisticcost == IF found
                        THEN RoundHalfAway(optimal.total_cost, 10 * blockNumber)
                        ELSE 0
        omcost == IF found THEN RoundOmCost(cost) ELSE 0
        blockshift == seaTime \div blockNumber
        shiftDate(j) == start + j * blockshift
        table == [k \in DOMAIN b.table |->
                    LET j == k - b.actIdx
                    IN  IF j \in 1..blockNumber
                        THEN [b.table[k] EXCEPT
                                !.currentEndActionDate = shiftDate(j),
                                !.currentStartActionDate =
                                    IF j > 1 THEN shiftDate(j - 1) ELSE @,
                                !.logisticCost = logisticcost,
                                !.omCost = omcost]
                        ELSE b.table[k]]
        onDevice == HasDevice(last.ComponentType)
        owners == IF last.belongsTo = "Array"
                  THEN [j \in 1..blockNumber |-> members[j].ComponentID]
                  ELSE IF onDevice
                  THEN [j \in 1..blockNumber |-> members[j].ComponentType]
                  ELSE <<>>
        booked == BookBlockCosts(b.arrayDict, owners, logisticcost, omcost)
        hits(key) == SelectSeq(members,
                         LAMBDA m : key \in DevicesHit(booked, m.ComponentID))
        events(d, key) ==
            LET h == hits(key)
                n == Len(h)
            IN  [d EXCEPT
                   !.ledger.CaBaMaOpEvents =
                       @ \o [m \in 1..n |-> shiftDate(m)],
                   !.ledger.CaBaMaOpEventsDuration =
                       @ \o [m \in 1..n |->
                                (totalDownTimeHours * 60) \div blockNumber],
                   !.ledger.CaBaMaOpEventsIndexFM =
                       @ \o [m \in 1..n |-> h[m].indexFM],
                   !.ledger.CaBaMaOpEventsCausedBy =
                       @ \o [m \in 1..n |-> <<h[m].ComponentID, "_CaBaMa">>],
                   !.ledger.CaBaMaCostLogistic =
                       IF onDevice THEN @ ELSE @ \o [m \in 1..n |-> 0],
                   !.ledger.CaBaMaCostOM =
                       IF onDevice THEN @ ELSE @ \o [m \in 1..n |-> 0]]
        dict == [key \in DOMAIN booked |->
                    IF HasDevice(key) THEN events(booked[key], key)
                    ELSE booked[key]]
        rows == [j \in 1..blockNumber |->
                    CaBaMaOutputRow(row, members[j], start, shiftDate(j),
                        totalDownTimeHours \div blockNumber, optimal, cost,
                        DevicesHit(dict, members[j].ComponentID))]
    IN  [b EXCEPT
           !.repairActionDate = start,
           !.actIdx = @ + blockNumber,
           !.om_logistic = result,
           !.requests = Append(@, LogisticRequest("CaBaMa", start,
                                                  PrepTimeCalcCaBaMa)),
           !.endOpDate = end, !.departOpDate = depart,
           !.totalSeaTimeHour = seaTime,
           !.table = table, !.arrayDict = dict,
           !.log = IF found
                   THEN SubSeq(@, 1, b.loopValues) \o rows
                        \o SubSeq(@, b.loopValues + blockNumber + 1, Len(@))
                   ELSE @,
           !.loopValues = IF found THEN @ + blockNumber ELSE @]
        ) : cost \in {costOfOM}} : TRUE

RECURSIVE CaBaMaBlocks(_, _, _, _, _, _)
\* the loop over blockNumberList, from block iCnt (from 0)
CaBaMaBlocks(b, row, dummy, blocks, iCnt, results) ==
    IF iCnt >= Len(blocks) \/ b.stopped \/ b.exception /= "none" THEN b
    ELSE IF BlockStart(dummy, iCnt) = None
    THEN [b EXCEPT !.exception = "KeyError"]
    ELSE IF endOperationDate < BlockStart(dummy, iCnt)
    THEN [b EXCEPT
            !.repairActionDate = BlockStart(dummy, iCnt),
            !.fCaBaMa = FALSE,
            !.fUnCoMa = IF Farm_OM.corrective_maintenance THEN TRUE ELSE @,
            !.fCoBaMa = IF /\ ~Farm_OM.corrective_maintenance
                           /\ Farm_OM.condition_based_maintenance
                        THEN TRUE ELSE @,
            !.bound = {"flagCalcCaBaMa"}
                      \cup (IF Farm_OM.corrective_maintenance
                            THEN {"flagCalcUnCoMa"} ELSE {})
                      \cup (IF /\ ~Farm_OM.corrective_maintenance
                               /\ Farm_OM.condition_based_maintenance
                            THEN {"flagCalcCoBaMa"} ELSE {}),
            !.stopped = TRUE]
    ELSE CaBaMaBlocks(CaBaMaBlock(b, row, dummy, iCnt, Row(blocks, iCnt),
                                  Row(results, iCnt)),
                      row, dummy, blocks, iCnt + 1, results)

\* __get_lcoe_calendar for the logistics results of the blocks of the step
get_lcoe_calendar(results) ==
    LET b == CaBaMaBefore
        row == Row(b.table, b.actIdx)
        dummy == BlockRows(b.table, row)
        blocks == CaBaMaBlocks(b, row, dummy, BlockNumberList(Len(dummy)), 0,
                               results)
    IN  IF IsNaN(row) THEN [b EXCEPT !.exception = "ValueError"]
        ELSE CHOOSE after \in {(
                 IF done.exception /= "none" THEN done
                 ELSE IF done.bound /= {"flagCalcCoBaMa", "flagCalcCaBaMa",
                                        "flagCalcUnCoMa"}
                 THEN [done EXCEPT !.exception = "UnboundLocalError"]
                 ELSE done
             ) : done \in {blocks}} : TRUE

\* the results the logistics collaborator may give for the blocks of the step
CaBaMaResults ==
    LET row == Row(CaBaMa_eventsTable, actIdxOfCaBaMa)
        dummy == BlockRows(CaBaMa_eventsTable, row)
        blocks == BlockNumberList(Len(dummy))
    IN  IF IsNaN(row) THEN {<<>>}
        ELSE {r \in [DOMAIN blocks ->
                        UNION {om_logistics_main(BlockStart(dummy, k - 1),
                                                 PrepTimeCalcCaBaMa) :
                               k \in DOMAIN blocks}] :
                \A k \in DOMAIN blocks :
                    r[k] \in om_logistics_main(BlockStart(dummy, k - 1),
                                               PrepTimeCalcCaBaMa)}

\* a Calendar pass that also moves the request date of the first Corrective
\* row by the sea time of the operation, as a shared event table would
CaBaMaStepAcrossTracks ==
    /\ pc = "CaBaMa"
    /\ Len(UnCoMa_eventsTable) > 0
    /\ UnCoMa_eventsTable' =
           SetRow(UnCoMa_eventsTable, 0,
                  [Row(UnCoMa_eventsTable, 0) EXCEPT
                      !.repairActionEvents = @ + Hour])
    /\ exception' = "UnboundLocalError"
    /\ pc' = "raised"
    /\ UNCHANGED <<config, phases, arrayDict, eventsTableNoPoisson,
                   UnCoMa_index, CaBaMa_eventsTable, CoBaMa_eventsTable,
                   schedulerVars, opVars, NrOfTurnOutDevices, logVars,
                   errorVars, outputsOfWP6, logisticVars, statVars>>

\* one pass of the Calendar block of the while loop
CaBaMaStep ==
    /\ pc = "CaBaMa"
    /\ \E results \in CaBaMaResults :
      \E a \in {get_lcoe_calendar(results)} :
        LET raised == a.exception /= "none"
            exhausted == ~raised /\ a.actIdx = Len(a.table)
            fCaBaMa == IF exhausted THEN FALSE ELSE a.fCaBaMa
            fUnCoMa == IF exhausted /\ Farm_OM.corrective_maintenance
                       THEN TRUE ELSE a.fUnCoMa
            fCoBaMa == IF /\ exhausted
                          /\ ~Farm_OM.corrective_maintenance
                          /\ Farm_OM.condition_based_maintenance
                       THEN TRUE ELSE a.fCoBaMa
        IN  /\ CaBaMa_eventsTable' = a.table
            /\ actIdxOfCaBaMa' = a.actIdx
            /\ loopValuesForOutput_CaBaMa' =
                   IF raised THEN loopValuesForOutput_CaBaMa ELSE a.loopValues
            /\ totalSeaTimeHour' = a.totalSeaTimeHour
            /\ departOpDate' = a.departOpDate
            /\ endOpDate' = a.endOpDate
            /\ repairActionDate' = a.repairActionDate
            /\ arrayDict' = a.arrayDict
            /\ CaBaMa_outputEventsTable' = a.log
            /\ om_logistic' = a.om_logistic
            /\ logisticRequests' = a.requests
            /\ \E param \in IF Len(a.requests) > Len(logisticRequests)
                             THEN calcLogistic(Logistic_Param)
                             ELSE {Logistic_Param} :
                    Logistic_Param' = param
            /\ exception' = a.exception
            /\ flagCalcCaBaMa' = IF raised THEN flagCalcCaBaMa ELSE fCaBaMa
            /\ flagCalcUnCoMa' = IF raised THEN flagCalcUnCoMa ELSE fUnCoMa
            /\ flagCalcCoBaMa' = IF raised THEN flagCalcCoBaMa ELSE fCoBaMa
            /\ pc' = IF raised THEN "raised"
                     ELSE IF exhausted THEN LoopTop(fCoBaMa, fCaBaMa, fUnCoMa)
                     ELSE AfterCaBaMa(fCoBaMa, fCaBaMa, fUnCoMa)
    /\ UNCHANGED statVars
    /\ UNCHANGED <<config, phases, eventsTableNoPoisson, UnCoMa_eventsTable,
                   UnCoMa_index, CoBaMa_eventsTable, actIdxOfUnCoMa,
                   actIdxOfCoBaMa, loopValuesForOutput_UnCoMa,
                   loopValuesForOutput_CoBaMa, totalActionDelayHour,
                   NrOfTurnOutDevices, UnCoMa_outputEventsTable,
                   CoBaMa_outputEventsTable, errorVars, outputsOfWP6>>

(* ---------------------------------------------------------------------- *)
(* __postCalculation                                                       *)
(* ---------------------------------------------------------------------- *)
\* keys of arrayDict that name a sub-system of a device
IsSubSystemKey(key) == \E k \in DOMAIN PtoNames : PtoNames[k] = key

CostLists(comp) ==
    (IF Farm_OM.corrective_maintenance
     THEN comp.ledger.UnCoMaCostOM \o comp.ledger.UnCoMaCostLogistic
     ELSE <<>>)
    \o (IF Farm_OM.condition_based_maintenance
        THEN comp.ledger.CoBaMaCostOM \o comp.ledger.CoBaMaCostLogistic
        ELSE <<>>)
    \o (IF Farm_OM.calendar_based_maintenance
        THEN comp.ledger.CaBaMaCostOM \o comp.ledger.CaBaMaCostLogistic
        ELSE <<>>)

\* the duration lists of all tracks, enabled or not, and of derating
AllDurationLists(comp) ==
    comp.ledger.UnCoMaOpEventsDuration \o comp.ledger.CoBaMaOpEventsDuration
        \o comp.ledger.CaBaMaOpEventsDuration
        \o comp.ledger.CoBaMaDeratingOpEventsDuration

DurationLists(comp) ==
    (IF Farm_OM.corrective_maintenance
     THEN comp.ledger.UnCoMaOpEventsDuration ELSE <<>>)
    \o (IF Farm_OM.condition_based_maintenance
        THEN comp.ledger.CoBaMaOpEventsDuration ELSE <<>>)
    \o (IF Farm_OM.calendar_based_maintenance
        THEN comp.ledger.CaBaMaOpEventsDuration ELSE <<>>)

\* the sum of the values of f over keys
RECURSIVE SumOver(_, _)
SumOver(keys, f) ==
    IF keys = {} THEN 0
    ELSE LET k == CHOOSE x \in keys : TRUE
         IN  f[k] + SumOver(keys \ {k}, f)

\* dummyOpexAll in cents
OpexAll(dict) ==
    SumOver({key \in DOMAIN dict : ~IsSubSystemKey(key)},
            [key \in DOMAIN dict |-> SumSeq(CostLists(dict[key]))])

\* dummyDownTime of a device, in minutes
DownTime(dict, key) == SumSeq(DurationLists(dict[key]))

\* energyPerDevice for the mission time, in Wh / 60
EnergyPerDeviceNum(dict, key) ==
    (AnnualEnergyWP2 \div yearHours)
        * (missionTime * yearHours * 60 - DownTime(dict, key))

\* __postCalculation on the outputs out and the ledgers of dict: the outputs
\* it leaves and the exception it ends with. The LCOE is the ratio of the
\* annual opex to the annual array energy stored in the outputs BEFORE this
\* aggregation (0 after __init__), kept as the pair (opex, energy).
postCalculation(out, dict, logs) ==
    LET energyNum == SumOver(DeviceKeys(dict),
                             [key \in DOMAIN dict |->
                                 EnergyPerDeviceNum(dict, key)])
        arrayenergy == IF missionTime /= 0
                       THEN RoundHalfAway(energyNum, 60 * missionTime)
                       ELSE 0
        arrayopex == IF missionTime /= 0
                     THEN RoundHalfAway(OpexAll(dict), missionTime)
                     ELSE 0
        devices == [k \in 1..NrOfDevices |-> DeviceNames[k]]
        perDevice ==
            [out EXCEPT
               !.annualEnergyOfDevices =
                   [k \in 1..NrOfDevices |->
                       IF missionTime /= 0
                       THEN RoundHalfAway(
                                EnergyPerDeviceNum(dict, devices[k]),
                                60 * missionTime)
                       ELSE 0],
               !.annualDownTimeOfDevices =
                   [k \in 1..NrOfDevices |->
                       IF missionTime /= 0
                       THEN RoundHalfAway(DownTime(dict, devices[k]),
                                          60 * missionTime)
                       ELSE 0]]
    IN  IF energyNum /= 0 /\ out.annualEnergyOfArray = 0
        THEN [out |-> perDevice, exception |-> "ZeroDivisionError"]
        ELSE [out |->
                  [perDevice EXCEPT
                     !.annualEnergyOfArray = arrayenergy,
                     !.annualOpexOfArray = arrayopex,
                     !.lcoeOfArray =
                         IF energyNum /= 0
                         THEN [opex |-> arrayopex,
                               energy |-> out.annualEnergyOfArray]
                         ELSE 0,
                     !.eventTables = logs],
              exception |-> "none"]

\* __calcLCOE_OfOM has left its loop: __postCalculation, executeCalc returns
PostCalculation ==
    /\ pc = "post"
    /\ \E a \in {postCalculation(outputsOfWP6, arrayDict,
                                 <<UnCoMa_outputEventsTable,
                                   CoBaMa_outputEventsTable,
                                   CaBaMa_outputEventsTable>>)} :
           /\ outputsOfWP6' = a.out
           /\ pc' = IF a.exception = "none" THEN "returned" ELSE "raised"
           /\ exception' = IF a.exception = "none" THEN exception
                           ELSE a.exception
           /\ phases' = IF a.exception = "none"
                        THEN phases \cup {"postCalculation"} ELSE phases
    /\ UNCHANGED statVars
    /\ UNCHANGED <<config, arrayDict, tables, schedulerVars, opVars,
                   NrOfTurnOutDevices, logVars, errorVars, logisticVars>>

Next ==
    \/ InitCalc
    \/ InitCheck
    \/ StartOM
    \/ CoBaMaStep
    \/ CaBaMaStep
    \/ UnCoMaStep
    \/ PostCalculation

Spec == Init /\ [][Next]_vars

(* ---------------------------------------------------------------------- *)
(* Properties                                                              *)
(* ---------------------------------------------------------------------- *)
\* the labels of the rows a track has not stepped yet; a disabled track has
\* no row to step
UnprocessedUnCoMa ==
    IF Farm_OM.corrective_maintenance
    THEN {i \in 0..(Len(UnCoMa_eventsTable) - 1) : actIdxOfUnCoMa <= i}
    ELSE {}

UnprocessedCoBaMa ==
    IF Farm_OM.condition_based_maintenance
    THEN {i \in 0..(Len(CoBaMa_eventsTable) - 1) :
            /\ actIdxOfCoBaMa <= i
            /\ ~IsNaN(Row(CoBaMa_eventsTable, i))}
    ELSE {}

EventKey(row) == <<row.ComponentID, row.indexFM, row.RA_ID>>

\* C1: after __initCalc, in every state of the run, no key (component id,
\* failure-mode index, repair-action id) has an unprocessed row in both the
\* Corrective and the Condition event table.
C1_NoKeyInBothTables ==
    "initCalc" \in phases =>
        \A i \in UnprocessedUnCoMa : \A j \in UnprocessedCoBaMa :
            EventKey(Row(UnCoMa_eventsTable, i))
                /= EventKey(Row(CoBaMa_eventsTable, j))

\* both tracks enabled, coordination done, both tables hold pending rows and
\* a component of the farm with a Condition row has no Corrective row
C1_Witness ==
    /\ "initCalc" \in phases
    /\ UnprocessedUnCoMa /= {}
    /\ UnprocessedCoBaMa /= {}
    /\ NrOfDevices = 1
    /\ \E j \in UnprocessedCoBaMa :
           Row(CoBaMa_eventsTable, j).ComponentID = "Substation001"

UnCoMaExhausted ==
    \/ actIdxOfUnCoMa = Len(UnCoMa_eventsTable)
    \/ endOperationDate
           < Row(UnCoMa_eventsTable, actIdxOfUnCoMa).repairActionEvents

\* C3: the loop steps one track at a time in the order Calendar, Corrective,
\* Condition: a Corrective or Condition step is never taken while the
\* Calendar track is active, a Condition step never while the Corrective
\* track is active, and the Condition track starts only when the Corrective
\* track is exhausted.
C3_FixedOrder ==
    /\ pc = "CaBaMa" => flagCalcCaBaMa
    /\ pc = "UnCoMa" => flagCalcUnCoMa /\ ~flagCalcCaBaMa
    /\ pc = "CoBaMa" => flagCalcCoBaMa /\ ~flagCalcCaBaMa /\ ~flagCalcUnCoMa
    /\ (pc = "CoBaMa" /\ Farm_OM.corrective_maintenance) => UnCoMaExhausted

\* the Condition track starts after the Corrective track realized actions
C3_Witness ==
    /\ pc = "CoBaMa"
    /\ Farm_OM.corrective_maintenance
    /\ loopValuesForOutput_UnCoMa >= 2
    /\ actIdxOfUnCoMa = Len(UnCoMa_eventsTable)

\* C4: the scheduler loop always reaches the state in which no track is
\* active: it never ends while a track is still active.
C4_LoopEndsWithNoTrackActive ==
    pc = "raised" => ~(flagCalcCaBaMa \/ flagCalcUnCoMa \/ flagCalcCoBaMa)

\* C5: once the count of turned-out devices equals the number of devices,
\* no track submits a logistics request.
C5_NoRequestOnceAllTurnedOut ==
    \A i \in DOMAIN logisticRequests :
        logisticRequests[i].NrOfTurnOutDevices /= NrOfDevices

IsPrefix(s, t) == Len(s) <= Len(t) /\ SubSeq(t, 1, Len(s)) = s

\* C6: the ledgers of arrayDict are append-only: every step of the run
\* leaves the entries of every list of every component in place and never
\* shortens a list.
C6_LedgersAppendOnly ==
    [][\A key \in DOMAIN arrayDict \cap DOMAIN arrayDict' :
          \A name \in DOMAIN arrayDict[key].ledger :
              IsPrefix(arrayDict[key].ledger[name],
                       arrayDict'[key].ledger[name])]_vars

\* a second cost entry follows the first in a Corrective ledger, and event
\* entries were appended to a Calendar ledger of a device
C6_Witness ==
    \/ \E key \in DOMAIN arrayDict :
           /\ Len(arrayDict[key].ledger.UnCoMaCostLogistic) >= 2
           /\ arrayDict[key].ledger.UnCoMaCostLogistic[1]
                  /= arrayDict[key].ledger.UnCoMaCostLogistic[2]
    \/ \E key \in DOMAIN arrayDict :
           /\ Len(arrayDict[key].ledger.CaBaMaOpEvents) >= 2
           /\ Len(arrayDict[key].ledger.CaBaMaCostLogistic) >= 2

\* the record executeCalc returned holds the results of a completed run
FullResult ==
    /\ {"calcLCOE_OfOM", "postCalculation"} \subseteq phases
    /\ outputsOfWP6.error = <<NoErrorRow>>

\* the record executeCalc returned holds errors and no result
ErrorOnly ==
    /\ \A k \in DOMAIN outputsOfWP6.error :
           outputsOfWP6.error[k].error /= "NoError"
    /\ "calcLCOE_OfOM" \notin phases

\* C7: executeCalc returns a full result record or an error record, never a
\* record with neither results nor an error.
C7_FullOrError ==
    pc = "returned" => FullResult \/ ErrorOnly

\* C8: with the pre-flight check enabled and an action without feasible
\* logistics, executeCalc runs no simulation and returns the error table with
\* one entry per infeasible action: its component id, type and subtype, its
\* failure-mode and repair-action ids, the deck area, cargo and loading
\* required and the mass and dimensions of the spare.
C8_ErrorTable ==
    (pc = "returned" /\ indexNoSolutionsFound /= <<>>) =>
        /\ "calcLCOE_OfOM" \notin phases
        /\ "postCalculation" \notin phases
        /\ outputsOfWP6.error = errorTable
        /\ Len(errorTable) = Len(indexNoSolutionsFound)
        /\ \A k \in DOMAIN errorTable :
               LET np == Row(eventsTableNoPoisson,
                             indexNoSolutionsFound[k].index)
                   cidx == CompIDWithIndex(np.ComponentID, np.indexFM)
                   e == errorTable[k]
               IN  /\ e.error = "NoSolutionsFound"
                   /\ e.ComponentID = np.ComponentID
                   /\ e.ComponentType = np.ComponentType
                   /\ e.ComponentSubType = np.ComponentSubType
                   /\ e.FM_ID = np.FM_ID
                   /\ e.RA_ID = np.RA_ID
                   /\ e.deck_area = feas_om(cidx).deck_area
                   /\ e.deck_cargo = feas_om(cidx).deck_cargo
                   /\ e.deck_loading = feas_om(cidx).deck_loading
                   /\ e.sp_dry_mass = Failure_Mode(cidx).spare_mass
                   /\ e.sp_length = Failure_Mode(cidx).spare_length
                   /\ e.sp_width = Failure_Mode(cidx).spare_width
                   /\ e.sp_height = Failure_Mode(cidx).spare_height

\* the second of two actions is the only infeasible one
C8_Witness ==
    /\ pc = "returned"
    /\ checkNoSolution
    /\ Len(eventsTableNoPoisson) = 2
    /\ Len(indexNoSolutionsFound) = 1
    /\ indexNoSolutionsFound[1].index = 1
    /\ errorTable[1].ComponentID = "Pto001"

\* C9: without pre-flight check, a step that gets the verdict
\* NoSolutionsFound or NoWeatherWindowFound from the logistics never aborts
\* the run.
C9_VerdictAbsorbed ==
    [][(/\ Len(logisticRequests') > Len(logisticRequests)
        /\ om_logistic'.findSolution
               \in {"NoSolutionsFound", "NoWeatherWindowFound"})
       => pc' /= "raised"]_vars

C11_DowntimeWritten ==
    /\ \A i \in DOMAIN UnCoMa_outputEventsTable :
           LET r == UnCoMa_outputEventsTable[i]
           IN  r /= NaNRowOutput =>
                   \A key \in DevicesHit(arrayDict, r.ComponentID) :
                       arrayDict[key].ledger.UnCoMaOpEventsDuration /= <<>>
    /\ \A i \in DOMAIN CaBaMa_outputEventsTable :
           LET r == CaBaMa_outputEventsTable[i]
           IN  r /= NaNRowOutput =>
                   \A key \in DevicesHit(arrayDict, r.ComponentID) :
                       arrayDict[key].ledger.CaBaMaOpEventsDuration /= <<>>

\* a pending Condition row of a device with pending Calendar actions of the
\* same component, one of them after the alarm: the rows the derating
\* decision is made for
DeratingCandidates ==
    {i \in UnprocessedCoBaMa :
        LET row == Row(CoBaMa_eventsTable, i)
        IN  /\ HasDevice(row.ComponentType)
            /\ 1 < Len(DeratingRows(row))
            /\ \E k \in DOMAIN DeratingRows(row) :
                   row.currentAlarmDate
                       < DeratingRows(row)[k].currentStartActionDate}

\* C12: a Condition alarm that precedes a pending Calendar action of the
\* same component is decided by the scheduler (derating path or dispatch):
\* the run never ends on an unbound local while such a row is pending.
C12_DeratingDecided ==
    (pc = "raised" /\ exception = "UnboundLocalError")
        => DeratingCandidates = {}

\* the Corrective table has no rows and the two planned tracks are disabled
NoFailureScenario ==
    /\ Farm_OM.corrective_maintenance
    /\ ~Farm_OM.calendar_based_maintenance
    /\ ~Farm_OM.condition_based_maintenance
    /\ "calcLCOE_OfOM" \in phases
    /\ UnCoMa_eventsTable = <<>>

\* C13: with no row in the Corrective table and the Calendar and Condition
\* tracks disabled the run completes, and it reports zero downtime for every
\* device, zero annual opex and an LCOE of 0.
C13_NoFailureNoCost ==
    NoFailureScenario =>
        /\ pc /= "raised"
        /\ pc = "returned" =>
               /\ \A k \in DOMAIN outputsOfWP6.annualDownTimeOfDevices :
                      outputsOfWP6.annualDownTimeOfDevices[k] = 0
               /\ outputsOfWP6.annualOpexOfArray = 0
               /\ outputsOfWP6.lcoeOfArray = 0

\* the event logs handed to the caller with the rollups
OutputLogs ==
    <<UnCoMa_outputEventsTable, CoBaMa_outputEventsTable,
      CaBaMa_outputEventsTable>>

\* C14: __postCalculation run twice on unchanged ledgers yields the rollups
\* both times, and the second run leaves the same per-device energy and
\* downtime, array energy, opex, capex and LCOE as the first.
C14_PostCalculationIdempotent ==
    pc = "post" =>
        \A first \in {postCalculation(outputsOfWP6, arrayDict, OutputLogs)} :
            /\ first.exception = "none"
            /\ postCalculation(first.out, arrayDict, OutputLogs) = first

\* C16: the reported LCOE is the annual opex over the annual array energy of
\* the same aggregation, 0 when that energy is 0, and the aggregation never
\* divides by zero.
C16_LcoeOfCurrentEnergy ==
    /\ exception /= "ZeroDivisionError"
    /\ "postCalculation" \in phases =>
           outputsOfWP6.lcoeOfArray =
               IF outputsOfWP6.annualEnergyOfArray = 0 THEN 0
               ELSE [opex |-> outputsOfWP6.annualOpexOfArray,
                     energy |-> outputsOfWP6.annualEnergyOfArray]

\* __calcCostOfOM on the instance fields its callers assign before the call
CostOfFields(r) ==
    calcCostOfOM(r.FM_ID, CompIDWithIndex(r.ComponentID, r.indexFM),
                 repairActionDate, departOpDate, endOpDate, totalSeaTimeHour)

\* the costs of a log row are those of the engine on the instance fields
CostFromFields(r) ==
    /\ r.costOM_Labor = LabourCostInt(CostOfFields(r))
    /\ r.costOM_Spare = CostOfFields(r).omCostValueSpare \div 100

\* the row the Corrective handler wrote last, and the Calendar handler
LastUnCoMaRow == UnCoMa_outputEventsTable[Len(UnCoMa_outputEventsTable)]

LastCaBaMaRow == CaBaMa_outputEventsTable[Len(CaBaMa_outputEventsTable)]

\* C15: the cost a track logs for an action is the result of __calcCostOfOM
\* on the time window, staffing, wages and spare costs of that action alone,
\* whichever track called it and whatever was processed before.
C15_CostFromInputsOnly ==
    [][/\ (/\ UnCoMa_outputEventsTable' /= UnCoMa_outputEventsTable
           /\ om_logistic'.findSolution = "SolutionFound")
          => CostFromFields(LastUnCoMaRow)'
       /\ (/\ CaBaMa_outputEventsTable' /= CaBaMa_outputEventsTable
           /\ om_logistic'.findSolution = "SolutionFound")
          => CostFromFields(LastCaBaMaRow)']_vars

\* a second action was costed after a first one with another sea time, and
\* its logged cost is the engine's on the fields of the second action
C15_Witness ==
    /\ Len(UnCoMa_outputEventsTable) >= 2
    /\ \E i \in DOMAIN UnCoMa_outputEventsTable :
           /\ i < Len(UnCoMa_outputEventsTable)
           /\ UnCoMa_outputEventsTable[i] /= NaNRowOutput
           /\ LastUnCoMaRow /= NaNRowOutput
           /\ UnCoMa_outputEventsTable[i].seatimeDuration
                  /= LastUnCoMaRow.seatimeDuration
    /\ om_logistic.findSolution = "SolutionFound"
    /\ LastUnCoMaRow.costOM_Labor /= 0
    /\ CostFromFields(LastUnCoMaRow)

(* ---------------------------------------------------------------------- *)
(* __postCalculation on drawn ledgers                                      *)
(* ---------------------------------------------------------------------- *)
\* duration lists of a ledger, in minutes
DurationDraws == {<<>>, <<90>>, <<60, 120>>}

DeratingDraws == {<<>>, <<30>>}

\* arrayDict of n devices whose duration lists hold drawn entries
LedgerStates(n) ==
    {[key \in DOMAIN executeFEM_arrayDict(n) |->
         IF HasDevice(key)
         THEN [executeFEM_arrayDict(n)[key] EXCEPT
                 !.ledger.UnCoMaOpEventsDuration = d[key][1],
                 !.ledger.CoBaMaOpEventsDuration = d[key][2],
                 !.ledger.CaBaMaOpEventsDuration = d[key][3],
                 !.ledger.CoBaMaDeratingOpEventsDuration = d[key][4]]
         ELSE executeFEM_arrayDict(n)[key]] :
     d \in [{DeviceNames[k] : k \in 1..n} ->
               DurationDraws \X DurationDraws \X DurationDraws
                   \X DeratingDraws]}

\* the aggregation entered with ledgers drawn from LedgerStates
PostInit ==
    /\ Farm_OM \in [calendar_based_maintenance : BOOLEAN,
                    corrective_maintenance : BOOLEAN,
                    condition_based_maintenance : BOOLEAN]
    /\ checkNoSolution = FALSE
    /\ integrateSelectPort = FALSE
    /\ ignoreWeatherWindow = FALSE
    /\ NrOfDevices \in 1..MaxDevices
    /\ pc = "post"
    /\ exception = "none"
    /\ phases = {"initCalc", "calcLCOE_OfOM"}
    /\ arrayDict \in LedgerStates(NrOfDevices)
    /\ eventsTableNoPoisson = <<>>
    /\ UnCoMa_eventsTable = <<>>
    /\ UnCoMa_index = <<>>
    /\ CaBaMa_eventsTable = <<NaNRowCaBaMa>>
    /\ CoBaMa_eventsTable = <<NaNRowCoBaMa>>
    /\ actIdxOfUnCoMa = 0
    /\ actIdxOfCaBaMa = 0
    /\ actIdxOfCoBaMa = 0
    /\ flagCalcUnCoMa = FALSE
    /\ flagCalcCaBaMa = FALSE
    /\ flagCalcCoBaMa = FALSE
    /\ loopValuesForOutput_UnCoMa = 0
    /\ loopValuesForOutput_CaBaMa = 0
    /\ loopValuesForOutput_CoBaMa = 0
    /\ totalActionDelayHour = 0
    /\ totalSeaTimeHour = 0
    /\ departOpDate = None
    /\ endOpDate = None
    /\ repairActionDate = None
    /\ NrOfTurnOutDevices = 0
    /\ UnCoMa_outputEventsTable = <<NaNRowOutput>>
    /\ CaBaMa_outputEventsTable = <<NaNRowOutput>>
    /\ CoBaMa_outputEventsTable = <<NaNRowOutput>>
    /\ errorFlag = FALSE
    /\ errorTable = <<NaNRowError>>
    /\ indexNoSolutionsFound = <<>>
    /\ outputsOfWP6 = [lcoeOfArray |-> 0, annualEnergyOfArray |-> 0,
                       annualOpexOfArray |-> 0, CapexOfArray |-> 0,
                       annualDownTimeOfDevices |-> [k \in 1..NrOfDevices |-> 0],
                       annualEnergyOfDevices |-> [k \in 1..NrOfDevices |-> 0],
                       error |-> <<>>, eventTables |-> <<>>]
    /\ om_logistic = [findSolution |-> "none", optimal |-> NoOptimal]
    /\ logisticRequests = <<>>
    /\ Logistic_Param = [t \in LogisticTables |-> "loaded"]
    /\ calendarPolicy = SubstationCalendar
    /\ numberOfSimulations = 1
    /\ simulations = <<>>
    /\ statistics = <<>>

PostSpec == PostInit /\ [][PostCalculation]_vars

\* __postCalculation has written the per-device outputs: it returned, or it
\* raised at the division that follows them
Aggregated == "postCalculation" \in phases \/ exception = "ZeroDivisionError"

\* the duration entries of a device over the enabled tracks, in minutes
EnabledDuration(key) ==
    (IF Farm_OM.corrective_maintenance
     THEN SumSeq(arrayDict[key].ledger.UnCoMaOpEventsDuration) ELSE 0)
    + (IF Farm_OM.condition_based_maintenance
       THEN SumSeq(arrayDict[key].ledger.CoBaMaOpEventsDuration) ELSE 0)
    + (IF Farm_OM.calendar_based_maintenance
       THEN SumSeq(arrayDict[key].ledger.CaBaMaOpEventsDuration) ELSE 0)

\* C17: after the aggregation the downtime of every device is the sum of its
\* duration entries over exactly the enabled tracks, per year of the mission,
\* and its annual energy is the mean power times the operating time less that
\* downtime, per year of the mission.
C17_DowntimeOfEnabledTracks ==
    Aggregated =>
        \A k \in 1..NrOfDevices :
            /\ outputsOfWP6.annualDownTimeOfDevices[k] =
                   RoundHalfAway(EnabledDuration(DeviceNames[k]),
                                 60 * missionTime)
            /\ outputsOfWP6.annualEnergyOfDevices[k] =
                   RoundHalfAway(
                       (AnnualEnergyWP2 \div yearHours)
                           * (missionTime * yearHours * 60
                              - EnabledDuration(DeviceNames[k])),
                       60 * missionTime)

\* a device with entries of an enabled track, of a disabled track and of
\* derating has been aggregated
C17_Witness ==
    /\ Aggregated
    /\ Farm_OM.calendar_based_maintenance
    /\ ~Farm_OM.corrective_maintenance
    /\ arrayDict["device001"].ledger.CaBaMaOpEventsDuration = <<60, 120>>
    /\ arrayDict["device001"].ledger.UnCoMaOpEventsDuration /= <<>>
    /\ arrayDict["device001"].ledger.CoBaMaDeratingOpEventsDuration /= <<>>
    /\ outputsOfWP6.annualDownTimeOfDevices[1] = 3

\* the Corrective track is about to read a row whose request date lies after
\* the end of the operation time
LateUnCoMaRow ==
    /\ pc = "UnCoMa"
    /\ actIdxOfUnCoMa < Len(UnCoMa_eventsTable)
    /\ endOperationDate
           < UnCoMaRequestDate(Row(UnCoMa_eventsTable, actIdxOfUnCoMa))

MaxSims == 3

\* the years and the devices of a single-run result
StatYears == 0..1

StatDevices == {"device001", "device002"}

\* results executeCalc may return for one simulation; opex in cents
SingleRunResults ==
    {[lifetimeOpex |-> c, lifetimeEnergy |-> 4 * c,
      CapexOfArray |-> 100,
      OpexPerYear |-> [y \in StatYears |-> y * c],
      energyPerYear |-> [y \in StatYears |-> y * 4 * c],
      downtimePerDevice |-> [d \in StatDevices |-> c \div 100],
      energyPerDevice |-> [d \in StatDevices |-> 2 * c],
      eventTables |-> <<>>] : c \in {0, 100, 250, 700, 1200}}

\* a driver that keeps the result of the last simulation only
KeepLastSimulation(cols, result) == <<result>>

\* the result of one more simulation kept as one more column
AddSimulation(cols, result) == Append(cols, result)

RECURSIVE CollectSimulations(_)
\* the columns kept after the calls that returned results, in call order
CollectSimulations(results) ==
    IF results = <<>> THEN <<>>
    ELSE AddSimulation(
             CollectSimulations(SubSeq(results, 1, Len(results) - 1)),
             results[Len(results)])

\* the record of main: one column per kept simulation in every table
StatTables(cols) ==
    [MetricsTable |->
         [k \in DOMAIN cols |->
             [lifetimeOpex |-> cols[k].lifetimeOpex,
              lifetimeEnergy |-> cols[k].lifetimeEnergy]],
     OpexPerYear |->
         [y \in StatYears |-> [k \in DOMAIN cols |-> cols[k].OpexPerYear[y]]],
     energyPerYear |->
         [y \in StatYears |->
             [k \in DOMAIN cols |-> cols[k].energyPerYear[y]]],
     downtimePerDevice |->
         [d \in StatDevices |->
             [k \in DOMAIN cols |-> cols[k].downtimePerDevice[d]]],
     energyPerDevice |->
         [d \in StatDevices |->
             [k \in DOMAIN cols |-> cols[k].energyPerDevice[d]]],
     eventTables |-> [k \in DOMAIN cols |-> cols[k].eventTables],
     CapexOfArray |-> IF cols = <<>> THEN 0 ELSE cols[1].CapexOfArray]

\* a driver that assembles its tables from no simulation at all
UncheckedStatistics(cols) == [exception |-> "none", result |-> StatTables(cols)]

\* the record main returns, or the ValueError it raises without simulations
StatisticsOf(cols) ==
    IF cols = <<>> THEN [exception |-> "ValueError", result |-> <<>>]
    ELSE [exception |-> "none", result |-> StatTables(cols)]

\* LCOE_Statistics constructed for numberOfSimulations runs of the calculator
StatInit ==
    /\ Farm_OM = [calendar_based_maintenance |-> FALSE,
                  corrective_maintenance |-> FALSE,
                  condition_based_maintenance |-> FALSE]
    /\ checkNoSolution = FALSE
    /\ integrateSelectPort = FALSE
    /\ ignoreWeatherWindow = FALSE
    /\ NrOfDevices = 0
    /\ pc = "main"
    /\ exception = "none"
    /\ phases = {}
    /\ arrayDict = <<>>
    /\ eventsTableNoPoisson = <<>>
    /\ UnCoMa_eventsTable = <<>>
    /\ UnCoMa_index = <<>>
    /\ CaBaMa_eventsTable = <<NaNRowCaBaMa>>
    /\ CoBaMa_eventsTable = <<NaNRowCoBaMa>>
    /\ actIdxOfUnCoMa = 0
    /\ actIdxOfCaBaMa = 0
    /\ actIdxOfCoBaMa = 0
    /\ flagCalcUnCoMa = FALSE
    /\ flagCalcCaBaMa = FALSE
    /\ flagCalcCoBaMa = FALSE
    /\ loopValuesForOutput_UnCoMa = 0
    /\ loopValuesForOutput_CaBaMa = 0
    /\ loopValuesForOutput_CoBaMa = 0
    /\ totalActionDelayHour = 0
    /\ totalSeaTimeHour = 0
    /\ departOpDate = None
    /\ endOpDate = None
    /\ repairActionDate = None
    /\ NrOfTurnOutDevices = 0
    /\ UnCoMa_outputEventsTable = <<NaNRowOutput>>
    /\ CaBaMa_outputEventsTable = <<NaNRowOutput>>
    /\ CoBaMa_outputEventsTable = <<NaNRowOutput>>
    /\ errorFlag = FALSE
    /\ errorTable = <<NaNRowError>>
    /\ indexNoSolutionsFound = <<>>
    /\ outputsOfWP6 = [lcoeOfArray |-> 0, annualEnergyOfArray |-> 0,
                       annualOpexOfArray |-> 0, CapexOfArray |-> 0,
                       annualDownTimeOfDevices |-> [k \in 1..NrOfDevices |-> 0],
                       annualEnergyOfDevices |-> [k \in 1..NrOfDevices |-> 0],
                       error |-> <<>>, eventTables |-> <<>>]
    /\ om_logistic = [findSolution |-> "none", optimal |-> NoOptimal]
    /\ logisticRequests = <<>>
    /\ Logistic_Param = [t \in LogisticTables |-> "loaded"]
    /\ calendarPolicy = SubstationCalendar
    /\ numberOfSimulations \in 0..MaxSims
    /\ simulations = <<>>
    /\ statistics = <<>>

\* main: executeCalc called once per simulation, the tables assembled from
\* the results, and the record returned or the exception raised
StatMain ==
    /\ pc = "main"
    /\ \E results \in [1..numberOfSimulations -> SingleRunResults] :
         \E a \in {StatisticsOf(CollectSimulations(results))} :
            /\ simulations' = results
            /\ statistics' = a.result
            /\ exception' = a.exception
            /\ pc' = IF a.exception = "none" THEN "mainReturned" ELSE "raised"
    /\ UNCHANGED <<config, numberOfSimulations, phases, arrayDict, tables,
                   schedulerVars, opVars, NrOfTurnOutDevices, logVars,
                   errorVars, outputsOfWP6, logisticVars>>

StatSpec == StatInit /\ [][StatMain]_vars

\* the keys of the record of main
StatKeys ==
    {"MetricsTable", "OpexPerYear", "energyPerYear", "downtimePerDevice",
     "energyPerDevice", "eventTables", "CapexOfArray"}

ActiveTracks ==
    (IF flagCalcCaBaMa THEN 1 ELSE 0) + (IF flagCalcUnCoMa THEN 1 ELSE 0)
        + (IF flagCalcCoBaMa THEN 1 ELSE 0)

\* C21: at every test of the scheduler loop at most one of the three track
\* flags (Calendar, Corrective, Condition) is set.
C21_OneTrackActive == ActiveTracks <= 1

\* the Corrective track processed rows and handed over to the Condition
\* track: its own flag is cleared, the other one set
C21_Witness ==
    /\ pc = "CoBaMa"
    /\ Farm_OM.corrective_maintenance
    /\ actIdxOfUnCoMa > 0
    /\ flagCalcCoBaMa
    /\ ~flagCalcUnCoMa
    /\ ActiveTracks = 1

\* the Calendar actions scheduled for the component and failure mode of a
\* Corrective row
CalendarActionsOf(row) ==
    {i \in DOMAIN CaBaMa_eventsTable :
        /\ ~IsNaN(CaBaMa_eventsTable[i])
        /\ CaBaMa_eventsTable[i].ComponentID = row.ComponentID
        /\ CaBaMa_eventsTable[i].FM_ID = row.FM_ID}

\* the request date lies in the delayEventsAfterCaBaMaHour hours that follow
\* the end of one of those actions
InCoolDownWindow(row, request) ==
    \E i \in CalendarActionsOf(row) :
        /\ CaBaMa_eventsTable[i].currentEndActionDate <= request
        /\ (request - CaBaMa_eventsTable[i].currentEndActionDate) \div Hour
               < delayEventsAfterCaBaMaHour

\* C22: the cool-down guard drops a Corrective row exactly when its request
\* date lies within delayEventsAfterCaBaMaHour (180 days) after the end of a
\* Calendar action scheduled for the same component and failure mode; a row
\* requested before that end, or later than the window, is dispatched.
C22_CoolDownWindow ==
    (/\ "initCalc" \in phases
     /\ Farm_OM.calendar_based_maintenance
     /\ Farm_OM.corrective_maintenance) =>
        \A i \in DOMAIN UnCoMa_eventsTable :
            foundDeleteFlag(UnCoMa_eventsTable[i],
                            UnCoMa_eventsTable[i].repairActionEvents)
                <=> InCoolDownWindow(UnCoMa_eventsTable[i],
                                     UnCoMa_eventsTable[i].repairActionEvents)

(* ---------------------------------------------------------------------- *)
(* The Calendar step on farms whose devices share one inspection date:    *)
(* the state at the first test of the while loop of __calcLCOE_OfOM with  *)
(* the Calendar track enabled, for farms of about CaBaMa_nrOfMaxActions   *)
(* devices, then one pass of the Calendar block.                          *)
(* ---------------------------------------------------------------------- *)
BatchDevices == {CaBaMa_nrOfMaxActions - 1, CaBaMa_nrOfMaxActions,
                 CaBaMa_nrOfMaxActions + 1}

BatchInit ==
    /\ Farm_OM \in [calendar_based_maintenance : {TRUE},
                    corrective_maintenance : BOOLEAN,
                    condition_based_maintenance : {FALSE}]
    /\ checkNoSolution = FALSE
    /\ integrateSelectPort = FALSE
    /\ ignoreWeatherWindow \in BOOLEAN
    /\ NrOfDevices \in BatchDevices
    /\ calendarPolicy = SubstationCalendar
    /\ pc = "CaBaMa"
    /\ exception = "none"
    /\ phases = {"initCalc", "calcLCOE_OfOM"}
    /\ arrayDict = executeFEM_arrayDict(NrOfDevices)
    /\ eventsTableNoPoisson = NoPoissonTable(NrOfDevices)
    /\ UnCoMa_eventsTable = <<>>
    /\ UnCoMa_index = <<>>
    /\ \E malformed \in {{}, {"Substation001"}} :
           CaBaMa_eventsTable =
               BuildCaBaMaTable(NoPoissonTable(NrOfDevices), malformed)
    /\ CoBaMa_eventsTable = <<NaNRowCoBaMa>>
    /\ actIdxOfUnCoMa = 0
    /\ actIdxOfCaBaMa = 0
    /\ actIdxOfCoBaMa = 0
    /\ flagCalcUnCoMa = StartFlags.UnCoMa
    /\ flagCalcCaBaMa = StartFlags.CaBaMa
    /\ flagCalcCoBaMa = StartFlags.CoBaMa
    /\ loopValuesForOutput_UnCoMa = 0
    /\ loopValuesForOutput_CaBaMa = 0
    /\ loopValuesForOutput_CoBaMa = 0
    /\ totalActionDelayHour = 0
    /\ totalSeaTimeHour = 0
    /\ departOpDate = None
    /\ endOpDate = None
    /\ repairActionDate = None
    /\ NrOfTurnOutDevices = 0
    /\ UnCoMa_outputEventsTable = <<NaNRowOutput>>
    /\ CaBaMa_outputEventsTable = <<NaNRowOutput>>
    /\ CoBaMa_outputEventsTable = <<NaNRowOutput>>
    /\ errorFlag = FALSE
    /\ errorTable = <<NoErrorRow>>
    /\ indexNoSolutionsFound = <<>>
    /\ outputsOfWP6 = [lcoeOfArray |-> 0, annualEnergyOfArray |-> 0,
                       annualOpexOfArray |-> 0, CapexOfArray |-> 0,
                       annualDownTimeOfDevices |-> [k \in 1..NrOfDevices |-> 0],
                       annualEnergyOfDevices |-> [k \in 1..NrOfDevices |-> 0],
                       error |-> <<NoErrorRow>>, eventTables |-> <<>>]
    /\ om_logistic = [findSolution |-> "none", optimal |-> NoOptimal]
    /\ logisticRequests = <<>>
    /\ Logistic_Param = [t \in LogisticTables |-> "loaded"]
    /\ numberOfSimulations = 1
    /\ simulations = <<>>
    /\ statistics = <<>>

BatchSpec == BatchInit /\ [][CaBaMaStep]_vars

\* the rows of the Calendar table that share the action of its first row
FirstMatching == BlockRows(CaBaMa_eventsTable, Row(CaBaMa_eventsTable, 0))

\* the number of batches of at most CaBaMa_nrOfMaxActions rows that hold n rows
BatchesFor(n) == (n + CaBaMa_nrOfMaxActions - 1) \div CaBaMa_nrOfMaxActions

\* C23: a Calendar step partitions the matching actions of its date into
\* batches of between 1 and CaBaMa_nrOfMaxActions rows, for every number of
\* matching rows, exact multiples of the maximum included: no batch is
\* empty, one logistics request is made per batch, the index advances by
\* the number of matching rows and never passes the length of the table.
C23_BatchesOfOneToMax ==
    (pc /= "CaBaMa" /\ "calcLCOE_OfOM" \in phases /\ logisticRequests /= <<>>
     /\ \A i \in DOMAIN logisticRequests : logisticRequests[i].track = "CaBaMa")
        => /\ exception /= "KeyError"
           /\ Len(logisticRequests) = BatchesFor(Len(FirstMatching))
           /\ actIdxOfCaBaMa = Len(FirstMatching)
           /\ actIdxOfCaBaMa <= Len(CaBaMa_eventsTable)

\* the Corrective step realized an action: a row was added to the log
UnCoMaRealized ==
    /\ pc = "UnCoMa"
    /\ exception' = "none"
    /\ loopValuesForOutput_UnCoMa' = loopValuesForOutput_UnCoMa + 1

\* the rows that wait behind the row of the step and fail with its component
SharesBreakdown(row, other) ==
    \/ other.ComponentID = row.ComponentID
    \/ /\ row.belongsTo = "Array"
       /\ "All" \in arrayDict[row.ComponentID].Breakdown

\* C24: after a realized Corrective action on a component with sea time s,
\* every row behind it of the same component (every row when the component
\* is an array element that breaks the whole farm down), the row processed
\* next included, has its failure and request date moved by exactly s, and
\* the dates of all other rows are unchanged.
C24_SeaTimeShift ==
    [][UnCoMaRealized =>
        \A i \in (actIdxOfUnCoMa + 1)..(Len(UnCoMa_eventsTable) - 1) :
            LET old == Row(UnCoMa_eventsTable, i)
                new == Row(UnCoMa_eventsTable', i)
                s == IF SharesBreakdown(Row(UnCoMa_eventsTable,
                                            actIdxOfUnCoMa), old)
                     THEN totalSeaTimeHour' ELSE 0
            IN  /\ new.failureEvents = old.failureEvents + s
                /\ new.repairActionEvents = old.repairActionEvents + s]_vars

\* the Condition step dispatched its row and the logistics found a solution
CoBaMaRealized ==
    /\ pc = "CoBaMa"
    /\ CoBaMaDispatches
    /\ Len(logisticRequests') = Len(logisticRequests) + 1
    /\ om_logistic'.findSolution = "SolutionFound"

RowCount(t, r) == Cardinality({i \in DOMAIN t : t[i] = r})

\* the row that continues a Condition row after an action that ended at start
ContinuationRow(row, start) ==
    LET series == arrayDict[row.ComponentID].CoBaMa_initOpEventsList[row.indexFM]
        index == NextDraw(series, start, row.currentEndDate)
    IN  [row EXCEPT !.currentStartDate = start,
                    !.currentEndDate = series[index],
                    !.currentAlarmDate =
                        AlarmDate(start, series[index], row.threshold)]

\* C25: a realized Condition action adds exactly one row to the Condition
\* table for the same component and failure mode, which starts at the end
\* of the action, wears out at the next pending failure draw of the
\* component and alarms at start + (wear-out - start) * (1 - threshold);
\* every other unprocessed row keeps its identity and dates, and the table
\* is sorted by alarm date afterwards.
C25_ContinuationRow ==
    [][(/\ CoBaMaRealized
        /\ 0 /= NextDraw(arrayDict[Row(CoBaMa_eventsTable, actIdxOfCoBaMa)
                             .ComponentID].CoBaMa_initOpEventsList[
                             Row(CoBaMa_eventsTable, actIdxOfCoBaMa).indexFM],
                         endOpDate',
                         Row(CoBaMa_eventsTable, actIdxOfCoBaMa).currentEndDate))
       => \E new \in {ContinuationRow(Row(CoBaMa_eventsTable, actIdxOfCoBaMa),
                                      endOpDate')} :
            /\ Len(CoBaMa_eventsTable') = Len(CoBaMa_eventsTable) + 1
            /\ RowCount(CoBaMa_eventsTable', new)
                   = RowCount(CoBaMa_eventsTable, new) + 1
            /\ \A i \in (actIdxOfCoBaMa + 1)..(Len(CoBaMa_eventsTable) - 1) :
                   RowCount(CoBaMa_eventsTable', Row(CoBaMa_eventsTable, i))
                       >= RowCount(CoBaMa_eventsTable,
                                   Row(CoBaMa_eventsTable, i))
            /\ \A i \in 1..(Len(CoBaMa_eventsTable') - 1) :
                   CoBaMa_eventsTable'[i].currentAlarmDate
                       <= CoBaMa_eventsTable'[i + 1].currentAlarmDate]_vars

\* the Condition track asked the logistics for the alarm of the row
DispatchedCoBaMa(row) ==
    \E k \in DOMAIN logisticRequests :
        /\ logisticRequests[k].track = "CoBaMa"
        /\ logisticRequests[k].requestDate = row.currentAlarmDate

\* the derating path booked the Calendar action for the device of the row
DeratedCoBaMa(row) ==
    arrayDict[row.ComponentType].ledger.CoBaMaDeratingCostLogistic /= <<>>

\* C26: every Condition row whose component also has a pending Calendar
\* action is decided by the tie-break: it takes the derating path when the
\* benefit of deferring is at least the benefit of repairing now, and is
\* dispatched otherwise.  A run that has ended left no such row undecided.
C26_TieBreakDecides ==
    (pc \in {"raised", "returned"} /\ "calcLCOE_OfOM" \in phases)
        => \A i \in DOMAIN CoBaMa_eventsTable :
               (i - 1) \in DeratingCandidates
                   => \/ DeratedCoBaMa(CoBaMa_eventsTable[i])
                      \/ DispatchedCoBaMa(CoBaMa_eventsTable[i])

\* the element that owns a row: the array element itself or the device
OwnerOf(row) ==
    IF row.belongsTo = "Array" THEN row.ComponentID ELSE row.ComponentType

\* the Corrective step meets a row that the fast exit or the
\* blocked-element guard skips
UnCoMaSkips ==
    /\ pc = "UnCoMa"
    /\ actIdxOfUnCoMa < Len(UnCoMa_eventsTable)
    /\ \/ NrOfDevices = NrOfTurnOutDevices
       \/ arrayDict[OwnerOf(Row(UnCoMa_eventsTable, actIdxOfUnCoMa))]
              .UnCoMaNoWeatherWindow

\* the same for the Condition step
CoBaMaSkips ==
    /\ pc = "CoBaMa"
    /\ actIdxOfCoBaMa < Len(CoBaMa_eventsTable)
    /\ ~IsNaN(Row(CoBaMa_eventsTable, actIdxOfCoBaMa))
    /\ \/ NrOfDevices = NrOfTurnOutDevices
       \/ arrayDict[OwnerOf(Row(CoBaMa_eventsTable, actIdxOfCoBaMa))]
              .CoBaMaNoWeatherWindow

\* what a skipped row leaves alone
SkipFrame ==
    UNCHANGED <<logisticRequests, arrayDict, NrOfTurnOutDevices, logVars,
                UnCoMa_eventsTable, CaBaMa_eventsTable, CoBaMa_eventsTable>>

CostAndDurationLedgers ==
    {"UnCoMaCostLogistic", "UnCoMaCostOM", "UnCoMaOpEventsDuration",
     "CaBaMaCostLogistic", "CaBaMaCostOM", "CaBaMaOpEventsDuration",
     "CoBaMaCostLogistic", "CoBaMaCostOM", "CoBaMaOpEventsDuration",
     "CoBaMaDeratingCostLogistic", "CoBaMaDeratingCostOM",
     "CoBaMaDeratingOpEventsDuration"}

\* the step recorded nothing but zeros in the cost and duration ledgers
OnlyZerosBooked ==
    \A key \in DOMAIN arrayDict : \A name \in CostAndDurationLedgers :
        /\ IsPrefix(arrayDict[key].ledger[name], arrayDict'[key].ledger[name])
        /\ \A i \in (Len(arrayDict[key].ledger[name]) + 1)
                        ..Len(arrayDict'[key].ledger[name]) :
               arrayDict'[key].ledger[name][i] = 0

\* the step of a track asked the logistics and got the verdict
VerdictStep(track, verdict) ==
    /\ pc = track
    /\ Len(logisticRequests') > Len(logisticRequests)
    /\ om_logistic'.findSolution = verdict

\* the rows of the Calendar table that share the action of the current row
SameCalendarAction ==
    {i \in DOMAIN CaBaMa_eventsTable :
        \A f \in {"startActionDate", "FM_ID", "indexFM", "RA_ID",
                  "ComponentSubType"} :
            CaBaMa_eventsTable[i][f]
                = Row(CaBaMa_eventsTable, actIdxOfCaBaMa)[f]}

\* C28: without pre-flight checking a NoSolutionsFound verdict fails the
\* action for good in every track: the index of the track moves past the
\* row (the rows of the Calendar action) exactly once and never moves back,
\* so the row is not dispatched again, and no non-zero cost or duration is
\* recorded for it in the ledgers, the Calendar table or the event logs.
C28_NoSolutionFailsForGood ==
    [][/\ actIdxOfUnCoMa' >= actIdxOfUnCoMa
       /\ actIdxOfCoBaMa' >= actIdxOfCoBaMa
       /\ actIdxOfCaBaMa' >= actIdxOfCaBaMa
       /\ VerdictStep("UnCoMa", "NoSolutionsFound")
            => /\ actIdxOfUnCoMa' = actIdxOfUnCoMa + 1
               /\ OnlyZerosBooked /\ UNCHANGED logVars
       /\ VerdictStep("CoBaMa", "NoSolutionsFound")
            => /\ actIdxOfCoBaMa' = actIdxOfCoBaMa + 1
               /\ OnlyZerosBooked /\ UNCHANGED logVars
       /\ VerdictStep("CaBaMa", "NoSolutionsFound")
            => /\ actIdxOfCaBaMa'
                      = actIdxOfCaBaMa + Cardinality(SameCalendarAction)
               /\ OnlyZerosBooked /\ UNCHANGED logVars
               /\ \A i \in SameCalendarAction :
                      /\ CaBaMa_eventsTable'[i].logisticCost = 0
                      /\ CaBaMa_eventsTable'[i].omCost = 0]_vars

C28_Witness ==
    /\ ~(checkNoSolution \/ integrateSelectPort)
    /\ om_logistic.findSolution = "NoSolutionsFound"
    /\ Len(logisticRequests) = 1 /\ logisticRequests[1].track = "UnCoMa"
    /\ actIdxOfUnCoMa = 1 /\ pc = "UnCoMa" /\ exception = "none"

\* what a dropped row leaves alone
DropFrame ==
    UNCHANGED <<arrayDict, NrOfTurnOutDevices, logVars, UnCoMa_eventsTable,
                CaBaMa_eventsTable, CoBaMa_eventsTable>>

\* C29: with ignoreWeatherWindow unset a NoWeatherWindowFound verdict drops
\* the row in every track without side effects: the index of the track
\* advances, and no ledger entry, weather-block flag, turned-out count,
\* event-table date or event-log row changes.
C29_NoWindowDropsRow ==
    [][~ignoreWeatherWindow =>
        /\ VerdictStep("UnCoMa", "NoWeatherWindowFound")
             => (actIdxOfUnCoMa' = actIdxOfUnCoMa + 1 /\ DropFrame)
        /\ VerdictStep("CoBaMa", "NoWeatherWindowFound")
             => (actIdxOfCoBaMa' = actIdxOfCoBaMa + 1 /\ DropFrame)
        /\ VerdictStep("CaBaMa", "NoWeatherWindowFound")
             => (actIdxOfCaBaMa' > actIdxOfCaBaMa /\ DropFrame)]_vars

\* the devices of the breakdown set of a row get their weather-block flag
\* and a downtime entry that runs from the failure to the end of operation
\* [min], and the counter grows by the devices that were not flagged before
CompletedAtHorizon(row, flag, durations, failureDate) ==
    /\ exception' = "none"
    /\ \A d \in DevicesHit(arrayDict, row.ComponentID) :
           /\ arrayDict'[d][flag]
           /\ arrayDict'[d].ledger[durations]
                  = Append(arrayDict[d].ledger[durations],
                           ((endOperationDate - failureDate) \div Hour) * 60)
    /\ NrOfTurnOutDevices'
           = NrOfTurnOutDevices
               + Cardinality({d \in DevicesHit(arrayDict, row.ComponentID) :
                                 ~arrayDict[d][flag]})

\* C30: with ignoreWeatherWindow set a NoWeatherWindowFound verdict counts
\* as an action completed at the end of operation with zero cost: the step
\* completes, every device of the breakdown set of the action gets its
\* weather-block flag and a downtime entry that runs to the horizon, and
\* the turned-out counter grows by one for each device newly flagged.
C30_NoWindowCompletesAtHorizon ==
    [][ignoreWeatherWindow =>
        /\ VerdictStep("UnCoMa", "NoWeatherWindowFound")
             => CompletedAtHorizon(Row(UnCoMa_eventsTable, actIdxOfUnCoMa),
                    "UnCoMaNoWeatherWindow", "UnCoMaOpEventsDuration",
                    Row(UnCoMa_eventsTable, actIdxOfUnCoMa).failureEvents)
        /\ VerdictStep("CoBaMa", "NoWeatherWindowFound")
             => CompletedAtHorizon(Row(CoBaMa_eventsTable, actIdxOfCoBaMa),
                    "CoBaMaNoWeatherWindow", "CoBaMaOpEventsDuration",
                    Row(CoBaMa_eventsTable, actIdxOfCoBaMa).currentAlarmDate)]_vars

\* the weather-block flags of the array dictionary
WeatherBlockFlags(dict) ==
    [key \in DOMAIN dict |->
        <<dict[key].UnCoMaNoWeatherWindow, dict[key].CoBaMaNoWeatherWindow>>]

\* the step booked the cost of the collaborator for the owner of the row,
\* ended the operation at the end date of the collaborator and neither
\* flagged nor counted a device
SolutionBooked(row, costs) ==
    /\ arrayDict'[OwnerOf(row)].ledger[costs]
           = Append(arrayDict[OwnerOf(row)].ledger[costs],
                    RoundCost(om_logistic'.optimal.total_cost))
    /\ endOpDate' = TruncMinute(om_logistic'.optimal.end_dt)
    /\ WeatherBlockFlags(arrayDict') = WeatherBlockFlags(arrayDict)
    /\ NrOfTurnOutDevices' = NrOfTurnOutDevices

\* C31: for a row with the verdict SolutionFound the recorded logistics cost
\* is the total cost of the collaborator, the recorded downtime ends at its
\* end date, and no device is flagged as weather-blocked or counted as
\* turned out, whether ignoreWeatherWindow is set or not.
C31_SolutionIgnoresWindowFlag ==
    [][/\ VerdictStep("UnCoMa", "SolutionFound")
            => SolutionBooked(Row(UnCoMa_eventsTable, actIdxOfUnCoMa),
                              "UnCoMaCostLogistic")
       /\ VerdictStep("CoBaMa", "SolutionFound")
            => SolutionBooked(Row(CoBaMa_eventsTable, actIdxOfCoBaMa),
                              "CoBaMaCostLogistic")]_vars

\* the component of the row has no wear-out draw later than both the end of
\* the action and the wear-out date of the row
NoLaterDraw(row, end) ==
    0 = NextDraw(arrayDict[row.ComponentID].CoBaMa_initOpEventsList[row.indexFM],
                 end, row.currentEndDate)

RealRows(t) == Cardinality({i \in DOMAIN t : ~IsNaN(t[i])})

\* C33: a track step reads its event table only at an index strictly below
\* the number of real rows of the table, in every configuration: an enabled
\* Corrective track with an empty table, an enabled Calendar or Condition
\* track whose table holds only the placeholder row, and Calendar steps
\* that advance by a whole batch.
C33_ReadsBelowRealRows ==
    /\ pc = "UnCoMa" => actIdxOfUnCoMa < Len(UnCoMa_eventsTable)
    /\ pc = "CaBaMa" => actIdxOfCaBaMa < RealRows(CaBaMa_eventsTable)
    /\ (pc = "CoBaMa" /\ actIdxOfCoBaMa < Len(CoBaMa_eventsTable))
           => actIdxOfCoBaMa < RealRows(CoBaMa_eventsTable)

(* ---------------------------------------------------------------------- *)
(* C34: the event tables of the other tracks are left alone                *)
(* ---------------------------------------------------------------------- *)
\* the Calendar rows a batch has written an end date and a cost into
WrittenCaBaMaRows ==
    {i \in DOMAIN CaBaMa_eventsTable :
        /\ ~IsNaN(CaBaMa_eventsTable[i])
        /\ CaBaMa_eventsTable[i].logisticCost > 0}

\* C34: a pass of one track changes no row of the other two tracks' event
\* tables: the Calendar pass leaves the Corrective and the Condition table
\* as they were, the Corrective pass (the shift of the later failures by the
\* sea time included) leaves the Calendar and the Condition table, and the
\* Condition pass (tie-break and continuation included) leaves the Calendar
\* and the Corrective table.
C34_OtherTablesUntouched ==
    [][ /\ pc = "CaBaMa" =>
              UNCHANGED <<UnCoMa_eventsTable, UnCoMa_index, CoBaMa_eventsTable>>
        /\ pc = "UnCoMa" =>
              UNCHANGED <<CaBaMa_eventsTable, CoBaMa_eventsTable>>
        /\ pc = "CoBaMa" =>
              UNCHANGED <<CaBaMa_eventsTable, UnCoMa_eventsTable, UnCoMa_index>>
      ]_vars

\* a Calendar batch has written its rows while the Corrective and the
\* Condition table hold rows of their own
C34_Witness ==
    /\ WrittenCaBaMaRows /= {}
    /\ Len(UnCoMa_eventsTable) > 0
    /\ RealRows(CoBaMa_eventsTable) > 0

(* ---------------------------------------------------------------------- *)
(* C35: the logistic tables after a call of the collaborator               *)
(* ---------------------------------------------------------------------- *)
\* the fleet, port and rate tables of Logistic_Param
FleetPortRateTables == {"vessels", "equipments", "ports", "other_rates"}

\* C35: whatever the collaborator does with the arguments of a logistics
\* call, the calculator's own fleet (vessels, equipments), port and rate
\* tables are afterwards as they were loaded.
C35_TablesAsLoaded ==
    \A t \in FleetPortRateTables : Logistic_Param[t] = "loaded"

\* the tables handed over as deep copies are as they were loaded
DeepCopiesProtect ==
    \A t \in DeepCopied : Logistic_Param[t] = "loaded"

(* ---------------------------------------------------------------------- *)
(* C36: the cost and the end dates of a Calendar batch                     *)
(* ---------------------------------------------------------------------- *)
\* a Calendar step that dispatched one batch and got a solution for it
OneBatchRealized ==
    /\ pc = "CaBaMa"
    /\ Len(logisticRequests') = Len(logisticRequests) + 1
    /\ om_logistic'.findSolution = "SolutionFound"
    /\ actIdxOfCaBaMa' > actIdxOfCaBaMa

\* the number of actions of the batch of the step
BatchSize == actIdxOfCaBaMa' - actIdxOfCaBaMa

\* the k-th row of the batch, after the step
BatchRow(k) == CaBaMa_eventsTable'[actIdxOfCaBaMa + k]

\* the cost of the one operation the batch was dispatched as: the cost the
\* logistics gave, and the cost of O&M of the one call of __calcCostOfOM
OperationCost ==
    RoundCost(om_logistic'.optimal.total_cost) + BatchRow(1).omCost

\* the costs written into the rows of the batch
BatchCosts ==
    SumSeq([k \in 1..BatchSize |->
               BatchRow(k).logisticCost + BatchRow(k).omCost])

\* the logistic cost is shared out evenly, to the cent for every action
LogisticCostShared ==
    \A k \in 1..BatchSize :
        /\ BatchRow(k).logisticCost * BatchSize
               <= RoundCost(om_logistic'.optimal.total_cost) + BatchSize
        /\ BatchRow(k).logisticCost * BatchSize
               >= RoundCost(om_logistic'.optimal.total_cost) - BatchSize

\* the k-th action ends k shares of the sea time after the start of the batch
EndDatesShifted ==
    \A k \in 1..BatchSize :
        BatchRow(k).currentEndActionDate =
            repairActionDate'
                + (k * om_logistic'.optimal.schedule_sea_time) \div BatchSize

\* C36: for a Calendar batch of b actions with a solution, every action is
\* charged one b-th of the cost of the dispatched operation, so that the
\* costs recorded for the batch add up to the cost of the one operation (to
\* the cent for every action), and the k-th action ends at the start of the
\* batch plus k times a b-th of the sea time.
C36_BatchCostShared ==
    [][ OneBatchRealized =>
          /\ LogisticCostShared
          /\ BatchCosts <= OperationCost + BatchSize
          /\ BatchCosts >= OperationCost - BatchSize
          /\ EndDatesShifted ]_vars

(* ---------------------------------------------------------------------- *)
(* C37: the order of the Corrective dispatches                             *)
(* ---------------------------------------------------------------------- *)
\* the request dates of the Corrective dispatches, in the order of the calls
UnCoMaRequestDates ==
    [k \in DOMAIN SelectSeq(logisticRequests, LAMBDA r : r.track = "UnCoMa") |->
        SelectSeq(logisticRequests, LAMBDA r : r.track = "UnCoMa")[k].requestDate]

\* C37: throughout the run the Corrective rows are dispatched in
\* non-decreasing order of their request dates, also after the request dates
\* of pending rows were moved by the accumulated delay or by the sea time of
\* a realized operation.
C37_DispatchedInDateOrder ==
    \A i, j \in DOMAIN UnCoMaRequestDates :
        i < j => UnCoMaRequestDates[i] <= UnCoMaRequestDates[j]

(* ---------------------------------------------------------------------- *)
(* C39: the policy fields that admit a component to a track                *)
(* ---------------------------------------------------------------------- *)
\* the condition-policy fields of a component are well-formed: both dates
\* are dates and the threshold lies between 0 and 100 percent
ConditionPolicyOK(cid) ==
    /\ Component(cid).start_date_condition_based_maintenance /= None
    /\ Component(cid).end_date_condition_based_maintenance /= None
    /\ 0 <= Component(cid).soh_threshold
    /\ Component(cid).soh_threshold <= 100

\* the Condition builder has taken the component up: it stored the failure
\* rate of the wear-out process for it
EnteredCondition(cid) == arrayDict[cid].CoBaMa_FR_List /= <<0>>

\* C39: with Condition maintenance enabled, a component whose
\* condition-policy fields (start, end, threshold) are well-formed is taken
\* into the Condition track by __initCalc, whatever its calendar-policy
\* fields are, and no error is raised.
C39_ConditionPolicyDecides ==
    (pc = "initialised" /\ Farm_OM.condition_based_maintenance) =>
        /\ exception = "none"
        /\ \A i \in DOMAIN eventsTableNoPoisson :
              ConditionPolicyOK(eventsTableNoPoisson[i].ComponentID)
                  => EnteredCondition(eventsTableNoPoisson[i].ComponentID)

(* ---------------------------------------------------------------------- *)
(* C40: the labour buckets of the cost of O&M                              *)
(* ---------------------------------------------------------------------- *)
\* the window of the last dispatch was realized and its step completed: the
\* dates and the sea time that __calcCostOfOM read are those of the solution
WindowRealized ==
    /\ om_logistic.findSolution = "SolutionFound"
    /\ departOpDate = TruncMinute(om_logistic.optimal.depart_dt)
    /\ endOpDate = TruncMinute(om_logistic.optimal.end_dt)
    /\ totalSeaTimeHour = om_logistic.optimal.schedule_sea_time
    /\ repairActionDate /= None
    /\ logisticRequests /= <<>>
    /\ exception = "none"

\* the working hours __calcCostOfOM computes for the realized window
RealizedHours ==
    WorkingHours(repairActionDate, departOpDate, endOpDate, totalSeaTimeHour)

\* the four buckets add up to the sea time
BucketsAddUp ==
    LabourBuckets(RealizedHours).dayNotWeekend
        + LabourBuckets(RealizedHours).dayWeekend
        + LabourBuckets(RealizedHours).nightNotWeekend
        + LabourBuckets(RealizedHours).nightWeekend
    = RealizedHours.sea * (RealizedHours.weekEnd + RealizedHours.notWeekEnd)

\* no bucket is negative
BucketsNonNegative ==
    /\ LabourBuckets(RealizedHours).dayNotWeekend >= 0
    /\ LabourBuckets(RealizedHours).dayWeekend >= 0
    /\ LabourBuckets(RealizedHours).nightNotWeekend >= 0
    /\ LabourBuckets(RealizedHours).nightWeekend >= 0

\* C40: for every realized window with a sea time that is not negative and
\* between 1 and 7 workdays a week, each of the four labour buckets
\* (day/weekday, day/weekend, night/weekday, night/weekend) is non-negative
\* and the four add up to the hours of sea time.
C40_LabourBuckets ==
    (WindowRealized /\ totalSeaTimeHour >= 0
        /\ workdays_summer \in 1..7 /\ workdays_winter \in 1..7)
    => (BucketsNonNegative /\ BucketsAddUp)

(* ---------------------------------------------------------------------- *)
(* C38: the windows of the Calendar builder.  __initCalc on farms whose    *)
(* array-level component has a calendar policy drawn around the bounds of  *)
(* the operation.                                                          *)
(* ---------------------------------------------------------------------- *)
\* start dates of the policy: at, just inside and just outside the start
\* and the end of the operation, and whole intervals before its end
PolicyStarts ==
    {startOperationDate - daySeconds, startOperationDate,
     startOperationDate + daySeconds, 30 * daySeconds,
     endOperationDate - yearSeconds \div 2 - daySeconds,
     endOperationDate - yearSeconds \div 2,
     endOperationDate - daySeconds, endOperationDate,
     endOperationDate + daySeconds}

\* intervals of the policy in half years
PolicyIntervals == 1..3

WindowInit ==
    /\ Farm_OM \in [calendar_based_maintenance : {TRUE},
                    corrective_maintenance : BOOLEAN,
                    condition_based_maintenance : {FALSE}]
    /\ checkNoSolution = FALSE
    /\ integrateSelectPort = FALSE
    /\ ignoreWeatherWindow = FALSE
    /\ NrOfDevices \in 0..MaxDevices
    /\ \E start \in PolicyStarts, interval \in PolicyIntervals :
           calendarPolicy =
               [start_date_calendar_based_maintenance |-> start,
                end_date_calendar_based_maintenance |-> start + daySeconds,
                interval_calendar_based_maintenance |-> interval]
    /\ pc = "executeCalc"
    /\ exception = "none"
    /\ phases = {}
    /\ arrayDict = <<>>
    /\ eventsTableNoPoisson = <<>>
    /\ UnCoMa_eventsTable = <<>>
    /\ UnCoMa_index = <<>>
    /\ CaBaMa_eventsTable = <<NaNRowCaBaMa>>
    /\ CoBaMa_eventsTable = <<NaNRowCoBaMa>>
    /\ actIdxOfUnCoMa = 0
    /\ actIdxOfCaBaMa = 0
    /\ actIdxOfCoBaMa = 0
    /\ flagCalcUnCoMa = FALSE
    /\ flagCalcCaBaMa = FALSE
    /\ flagCalcCoBaMa = FALSE
    /\ loopValuesForOutput_UnCoMa = 0
    /\ loopValuesForOutput_CaBaMa = 0
    /\ loopValuesForOutput_CoBaMa = 0
    /\ totalActionDelayHour = 0
    /\ totalSeaTimeHour = 0
    /\ departOpDate = None
    /\ endOpDate = None
    /\ repairActionDate = None
    /\ NrOfTurnOutDevices = 0
    /\ UnCoMa_outputEventsTable = <<NaNRowOutput>>
    /\ CaBaMa_outputEventsTable = <<NaNRowOutput>>
    /\ CoBaMa_outputEventsTable = <<NaNRowOutput>>
    /\ errorFlag = FALSE
    /\ errorTable = <<NaNRowError>>
    /\ indexNoSolutionsFound = <<>>
    /\ outputsOfWP6 = [lcoeOfArray |-> 0, annualEnergyOfArray |-> 0,
                       annualOpexOfArray |-> 0, CapexOfArray |-> 0,
                       annualDownTimeOfDevices |-> [k \in 1..NrOfDevices |-> 0],
                       annualEnergyOfDevices |-> [k \in 1..NrOfDevices |-> 0],
                       error |-> <<>>, eventTables |-> <<>>]
    /\ om_logistic = [findSolution |-> "none", optimal |-> NoOptimal]
    /\ logisticRequests = <<>>
    /\ Logistic_Param = [t \in LogisticTables |-> "loaded"]
    /\ numberOfSimulations = 1
    /\ simulations = <<>>
    /\ statistics = <<>>

WindowSpec == WindowInit /\ [][InitCalc]_vars

\* the step of the policy in seconds
PolicyStep ==
    (calendarPolicy.interval_calendar_based_maintenance * yearSeconds) \div 2

\* the start dates start + k x interval up to a last date
PolicyDatesUpTo(last) ==
    {calendarPolicy.start_date_calendar_based_maintenance + k * PolicyStep :
        k \in 0..(operationTimeSeconds \div PolicyStep + 1)}
    \cap (startOperationDate - daySeconds)..last

\* the rows of a Calendar table that belong to the array-level component
SubstationWindows(t) ==
    SelectSeq(t, LAMBDA r : r.ComponentID = ArrayRowNoPoisson.ComponentID)

\* __initCalc built the Calendar table of a farm whose array-level component
\* has well-formed calendar fields and a start date not before the operation
WellFormedBuilt ==
    /\ pc = "executeCalc"
    /\ pc' = "initialised"
    /\ startOperationDate
           <= calendarPolicy.start_date_calendar_based_maintenance
    /\ CaBaMa_eventsTable' = BuildCaBaMaTable(eventsTableNoPoisson', {})

\* the windows of the array-level component start at exactly the dates of a set
WindowsStartAt(dates) ==
    /\ {SubstationWindows(CaBaMa_eventsTable')[i].startActionDate :
            i \in DOMAIN SubstationWindows(CaBaMa_eventsTable')} = dates
    /\ Len(SubstationWindows(CaBaMa_eventsTable')) = Cardinality(dates)

\* C38: for a component with well-formed calendar fields the builder emits
\* exactly one window for every start date start + k x interval x 365.25
\* days (k = 0, 1, 2, ...) that is not after the end of the operation, the
\* window that starts exactly at the end of the operation included, and
\* none that starts later.
C38_WindowsUpToOperationEnd ==
    [][WellFormedBuilt => WindowsStartAt(PolicyDatesUpTo(endOperationDate))]_vars

\* the windows that start before the end of the operation are emitted, one each
WindowsBeforeOperationEnd ==
    [][WellFormedBuilt
          => WindowsStartAt(PolicyDatesUpTo(endOperationDate - 1))]_vars

====
